---- MODULE Spec2Model ----
(***************************************************************************)
(* Tree-bitmap longest-prefix-match table (hroi/treebitmap).               *)
(*                                                                         *)
(* The model follows src/src/tree_bitmap/{node,allocator,mod}.rs:          *)
(*   - a u32 bitmap is the set of its set bit positions (bit k <-> 1 << k),*)
(*     so & is \cap, | is \cup, count_ones is Cardinality and              *)
(*     trailing_zeros is the least element;                                *)
(*   - a BucketVec is its buffer (a sequence of cells; the cell at element *)
(*     offset o is buf[o + 1]), its free list, its len and its spacing;    *)
(*     a cell is <<>> while it holds no value (never written, moved out,   *)
(*     or vacated) and <<x>> when it holds x;                              *)
(*   - a debug assertion that fires, an 'unreachable!', an out-of-range    *)
(*     index or a read of a cell that holds no value is recorded in an     *)
(*     err field ("ok" otherwise) and stops the table.                     *)
(***************************************************************************)
EXTENDS Integers, Sequences, FiniteSets, TLC

(***************************************************************************)
(* Bounds of the model.                                                    *)
(***************************************************************************)
\* number of nibbles of an address (IPv4: 8, IPv6: 32)
NumNibbles == 3
\* greatest number of insert and remove calls
MaxOps == 3

(***************************************************************************)
(* u32 bitmaps as sets of bit positions.                                   *)
(***************************************************************************)
Bit(k) == {k}

SetMin(S) == CHOOSE x \in S : \A y \in S : x <= y

\* u32::count_ones
count_ones(a) == Cardinality(a)

\* u32::trailing_zeros
trailing_zeros(a) == IF a = {} THEN 32 ELSE SetMin(a)

\* a >> k for 0 <= k < 32
Shr(a, k) == {b - k : b \in {x \in a : x >= k}}

\* first error wins
Chk(err, cond, tag) == IF err # "ok" THEN err ELSE IF cond THEN "ok" ELSE tag

(***************************************************************************)
(* node.rs: constants and tables.                                          *)
(***************************************************************************)
INT_MASK == 16 .. 31

EXT_MASK == 0 .. 15

END_BIT == Bit(16)

END_BIT_MASK == (0 .. 31) \ END_BIT

IS_END_NODE == Bit(16)

MSB == Bit(31)

\* MSB >> k
MsbShr(k) == Bit(31 - k)

INTERNAL_LOOKUP_TABLE ==
  << \* mask = 00000, 0/0
     << Bit(31), {}, {}, {}, {}, {}, {}, {}, {}, {}, {}, {}, {}, {}, {}, {} >>,
     \* mask = 00001, 0-1/1
     << Bit(30), {}, {}, {}, {}, {}, {}, {}, Bit(29), {}, {}, {}, {}, {}, {}, {} >>,
     \* mask = 00011, 0-3/2
     << Bit(28), {}, {}, {}, Bit(27), {}, {}, {}, Bit(26), {}, {}, {}, Bit(25), {}, {}, {} >>,
     \* mask = 00111, 0-7/3
     << Bit(24), {}, Bit(23), {}, Bit(22), {}, Bit(21), {},
        Bit(20), {}, Bit(19), {}, Bit(18), {}, Bit(17), {} >>,
     \* mask = 01111, 0-15/4
     << IS_END_NODE \cup Bit(15), IS_END_NODE \cup Bit(14),
        IS_END_NODE \cup Bit(13), IS_END_NODE \cup Bit(12),
        IS_END_NODE \cup Bit(11), IS_END_NODE \cup Bit(10),
        IS_END_NODE \cup Bit(9),  IS_END_NODE \cup Bit(8),
        IS_END_NODE \cup Bit(7),  IS_END_NODE \cup Bit(6),
        IS_END_NODE \cup Bit(5),  IS_END_NODE \cup Bit(4),
        IS_END_NODE \cup Bit(3),  IS_END_NODE \cup Bit(2),
        IS_END_NODE \cup Bit(1),  IS_END_NODE \cup Bit(0) >> >>

MATCH_MASKS ==
  << MSB \cup MsbShr(1) \cup MsbShr(3) \cup MsbShr(7)  \cup MsbShr(16),
     MSB \cup MsbShr(1) \cup MsbShr(3) \cup MsbShr(7)  \cup MsbShr(17),
     MSB \cup MsbShr(1) \cup MsbShr(3) \cup MsbShr(8)  \cup MsbShr(18),
     MSB \cup MsbShr(1) \cup MsbShr(3) \cup MsbShr(8)  \cup MsbShr(19),
     MSB \cup MsbShr(1) \cup MsbShr(4) \cup MsbShr(9)  \cup MsbShr(20),
     MSB \cup MsbShr(1) \cup MsbShr(4) \cup MsbShr(9)  \cup MsbShr(21),
     MSB \cup MsbShr(1) \cup MsbShr(4) \cup MsbShr(10) \cup MsbShr(22),
     MSB \cup MsbShr(1) \cup MsbShr(4) \cup MsbShr(10) \cup MsbShr(23),
     MSB \cup MsbShr(2) \cup MsbShr(5) \cup MsbShr(11) \cup MsbShr(24),
     MSB \cup MsbShr(2) \cup MsbShr(5) \cup MsbShr(11) \cup MsbShr(25),
     MSB \cup MsbShr(2) \cup MsbShr(5) \cup MsbShr(12) \cup MsbShr(26),
     MSB \cup MsbShr(2) \cup MsbShr(5) \cup MsbShr(12) \cup MsbShr(27),
     MSB \cup MsbShr(2) \cup MsbShr(6) \cup MsbShr(13) \cup MsbShr(28),
     MSB \cup MsbShr(2) \cup MsbShr(6) \cup MsbShr(13) \cup MsbShr(29),
     MSB \cup MsbShr(2) \cup MsbShr(6) \cup MsbShr(14) \cup MsbShr(30),
     MSB \cup MsbShr(2) \cup MsbShr(6) \cup MsbShr(14) \cup MsbShr(31) >>

\* BIT_MATCH with 5 for the nibbles
BIT_MATCH_long ==
  << 0, 1, 1, 2, 2, 2, 2, 3, 3, 3, 3, 3, 3, 3, 3, 0,
     5, 5, 5, 5, 5, 5, 5, 5, 5, 5, 5, 5, 5, 5, 5, 5 >>

\* indexed by bit index counted from the most significant bit, 0 .. 31
BIT_MATCH ==
  << 0, 1, 1, 2, 2, 2, 2, 3, 3, 3, 3, 3, 3, 3, 3, 0,
     4, 4, 4, 4, 4, 4, 4, 4, 4, 4, 4, 4, 4, 4, 4, 4 >>

\* gen_bitmap that reads the row of length 0 whatever the length
gen_bitmap_any_length(prefix, masklen) == INTERNAL_LOOKUP_TABLE[1][1]

\* the table lookup of gen_bitmap; its debug assertions are gen_bitmap_pre
gen_bitmap(prefix, masklen) ==
  IF prefix < 16 /\ masklen < 5
    THEN INTERNAL_LOOKUP_TABLE[masklen + 1][prefix + 1]
    ELSE {}

gen_bitmap_pre(prefix, masklen) ==
  /\ prefix < 16
  /\ masklen < 5
  /\ gen_bitmap(prefix, masklen) # {}

(***************************************************************************)
(* node.rs: Node.                                                          *)
(***************************************************************************)
\* AllocatorHandle::generate (allocator.rs)
generate(len, offset) == [len |-> len, offset |-> offset]

\* Node::new
NewNode == [bitmap |-> {}, child_ptr |-> 0, result_ptr |-> 0]

is_blank(n) == n.bitmap = {} /\ n.child_ptr = 0 /\ n.result_ptr = 0

\* is_empty looking at the internal half of the bitmap only
is_empty_internal_only(n) == n.bitmap \cap INT_MASK = {}

is_empty(n) == n.bitmap \cap END_BIT_MASK = {}

is_endnode(n) == n.bitmap \cap END_BIT # {}

internal(n) ==
  IF is_endnode(n) THEN n.bitmap \cap END_BIT_MASK ELSE n.bitmap \cap INT_MASK

external(n) == IF is_endnode(n) THEN {} ELSE n.bitmap \cap EXT_MASK

make_endnode_pre(n) == ~is_endnode(n) /\ external(n) = {}

make_endnode(n) == [n EXCEPT !.bitmap = @ \cup END_BIT]

make_normalnode_pre(n) == is_endnode(n)

\* make_normalnode that leaves the endnode bit set
make_normalnode_kept(n) == n

make_normalnode(n) == [n EXCEPT !.bitmap = @ \cap END_BIT_MASK]

child_count(n) == count_ones(external(n))

result_count(n) == count_ones(internal(n))

result_handle(n) == generate(result_count(n), n.result_ptr)

child_handle(n) == generate(child_count(n), n.child_ptr)

set_internal_pre(n, bitmap) ==
  /\ count_ones(bitmap) = 1
  /\ bitmap \cap END_BIT = {}
  /\ n.bitmap \cap bitmap = {}
  /\ (~is_endnode(n) => bitmap \cap EXT_MASK = {})

set_internal(n, bitmap) == [n EXCEPT !.bitmap = @ \cup bitmap]

unset_internal_pre(n, bitmap) ==
  /\ count_ones(bitmap) = 1
  /\ bitmap \cap END_BIT = {}
  /\ n.bitmap \cap bitmap = bitmap
  /\ (~is_endnode(n) => bitmap \cap EXT_MASK = {})

\* self.bitmap ^= bitmap
unset_internal(n, bitmap) ==
  [n EXCEPT !.bitmap = (@ \ bitmap) \cup (bitmap \ @)]

set_external_pre(n, bitmap) ==
  /\ ~is_endnode(n)
  /\ bitmap \cap END_BIT = {}
  /\ n.bitmap \cap bitmap = {}
  /\ bitmap \cap INT_MASK = {}

set_external(n, bitmap) == [n EXCEPT !.bitmap = @ \cup bitmap]

unset_external_pre(n, bitmap) ==
  /\ ~is_endnode(n)
  /\ bitmap \cap END_BIT = {}
  /\ n.bitmap \cap bitmap = bitmap
  /\ bitmap \cap INT_MASK = {}

\* unset_external that leaves the bit set
unset_external_kept(n, bitmap) == n

\* self.bitmap ^= bitmap
unset_external(n, bitmap) ==
  [n EXCEPT !.bitmap = (@ \ bitmap) \cup (bitmap \ @)]

\* MatchResult: Match(result_hdl, result_index, bit index), Chase(child_hdl,
\* child_index), None
MatchNone == [kind |-> "None", hdl |-> generate(0, 0), index |-> 0, bit |-> 0]

\* match_internal that reports the most significant bit of the intersection
match_internal_shortest(n, match_mask) ==
  LET result_match == internal(n) \cap match_mask
  IN IF result_match # {}
       THEN LET best_match_bit_index ==
                  31 - (CHOOSE b \in result_match : \A c \in result_match : c <= b)
                best_match_result_index ==
                  IF best_match_bit_index = 0
                    THEN 0
                    ELSE count_ones(Shr(internal(n), 32 - best_match_bit_index))
            IN [kind |-> "Match", hdl |-> result_handle(n),
                index |-> best_match_result_index, bit |-> best_match_bit_index]
       ELSE MatchNone

match_internal(n, match_mask) ==
  LET result_match == internal(n) \cap match_mask
  IN IF result_match # {}
       THEN LET best_match_bit_index == 31 - trailing_zeros(result_match)
                best_match_result_index ==
                  IF best_match_bit_index = 0
                    THEN 0
                    ELSE count_ones(Shr(internal(n), 32 - best_match_bit_index))
            IN [kind |-> "Match", hdl |-> result_handle(n),
                index |-> best_match_result_index, bit |-> best_match_bit_index]
       ELSE MatchNone

match_external(n, match_mask) ==
  LET child_match == external(n) \cap match_mask
  IN IF child_match # {}
       THEN LET best_match_bit_index == 31 - trailing_zeros(child_match)
                best_match_child_index ==
                  IF best_match_bit_index = 0
                    THEN 0
                    ELSE count_ones(Shr(external(n), 32 - best_match_bit_index))
            IN [kind |-> "Chase", hdl |-> child_handle(n),
                index |-> best_match_child_index, bit |-> 0]
       ELSE MatchNone

\* match_segment that looks at the values before the children
match_segment_values_first(n, segment) ==
  LET Pick(x, match_mask) ==
        IF x.kind = "None" THEN match_external(n, match_mask) ELSE x
      With(match_mask) == Pick(match_internal(n, match_mask), match_mask)
  IN With(MATCH_MASKS[segment + 1])

match_segment(n, segment) ==
  LET Pick(x, match_mask) ==
        IF x.kind = "None" THEN match_internal(n, match_mask) ELSE x
      With(match_mask) == Pick(match_external(n, match_mask), match_mask)
  IN With(MATCH_MASKS[segment + 1])

(***************************************************************************)
(* allocator.rs: BucketVec.                                                *)
(***************************************************************************)
\* a cell that holds no value: reserved and never written (zeroed in debug
\* builds only), moved out, or vacated
NoCell == <<>>

IsInit(c) == c # NoCell

\* BucketVec::with_capacity
NewBucketVec(spacing) ==
  [buf |-> <<>>, freelist |-> <<>>, len |-> 0, spacing |-> spacing]

\* the cell at element offset off
CellAt(b, off) == IF off < Len(b.buf) THEN b.buf[off + 1] ELSE NoCell

\* a slot of b: a multiple of spacing whose cells are reserved
SlotOk(b, slot) == slot % b.spacing = 0 /\ slot + b.spacing <= b.len

\* alloc_slot that hands out a free slot and leaves it on the free list
alloc_slot_still_free(b) ==
  IF b.freelist # <<>>
    THEN [b |-> b, slot |-> b.freelist[Len(b.freelist)]]
    ELSE [b |-> [b EXCEPT !.buf = @ \o [i \in 1 .. b.spacing |-> NoCell],
                          !.len = @ + b.spacing],
          slot |-> b.len]

\* alloc_slot that takes the free slot that was freed first
alloc_slot_oldest(b) ==
  IF b.freelist # <<>>
    THEN [b |-> [b EXCEPT !.freelist = SubSeq(@, 2, Len(@))],
          slot |-> b.freelist[1]]
    ELSE [b |-> [b EXCEPT !.buf = @ \o [i \in 1 .. b.spacing |-> NoCell],
                          !.len = @ + b.spacing],
          slot |-> b.len]

alloc_slot(b) ==
  IF b.freelist # <<>>
    THEN [b |-> [b EXCEPT !.freelist = SubSeq(@, 1, Len(@) - 1)],
          slot |-> b.freelist[Len(b.freelist)]]
    ELSE [b |-> [b EXCEPT !.buf = @ \o [i \in 1 .. b.spacing |-> NoCell],
                          !.len = @ + b.spacing],
          slot |-> b.len]

\* free_slot that forgets the slot
free_slot_forgotten(b, slot) == b

free_slot(b, slot) == [b EXCEPT !.freelist = Append(@, slot)]

get_slot_entry_pre(b, slot, index) ==
  /\ slot % b.spacing = 0
  /\ slot + index < b.len
  /\ IsInit(CellAt(b, slot + index))

get_slot_entry(b, slot, index) == CellAt(b, slot + index)

set_slot_entry_pre(b, slot, index) ==
  /\ slot % b.spacing = 0
  /\ index < b.spacing
  /\ slot + index < b.len

set_slot_entry(b, slot, index, value) ==
  IF slot + index < b.len
    THEN [b EXCEPT !.buf[slot + index + 1] = <<value>>]
    ELSE b

replace_slot_entry_pre(b, slot, index) ==
  /\ slot % b.spacing = 0
  /\ index < b.spacing
  /\ slot + index < b.len
  /\ IsInit(CellAt(b, slot + index))

replace_slot_entry(b, slot, index, value) ==
  [b |-> set_slot_entry(b, slot, index, value), ret |-> CellAt(b, slot + index)]

\* insert_slot_entry that moves spacing - index cells, one too many
insert_slot_entry_overrun(b, slot, index, value) ==
  IF ~(index < b.spacing /\ slot + b.spacing <= b.len)
    THEN b
    ELSE LET offset == slot + index
             count  == b.spacing - index
         IN [b EXCEPT !.buf =
               <<>> \o [p \in 1 .. Len(b.buf) |->
                  IF p - 1 = offset THEN <<value>>
                  ELSE IF p - 1 > offset /\ p - 1 <= offset + count
                    THEN b.buf[p - 1]
                    ELSE b.buf[p]]]

\* 'spacing - index - 1' must not underflow and the moved range must lie in
\* the buffer
insert_slot_entry_pre(b, slot, index) ==
  /\ slot % b.spacing = 0
  /\ index < b.spacing
  /\ slot + b.spacing <= b.len

\* the cells of the buffer are written at once: buf is a sequence of cells
insert_slot_entry(b, slot, index, value) ==
  IF ~(index < b.spacing /\ slot + b.spacing <= b.len)
    THEN b
    ELSE LET offset == slot + index
             count  == b.spacing - index - 1
         IN [b EXCEPT !.buf =
               <<>> \o [p \in 1 .. Len(b.buf) |->
                  IF p - 1 = offset THEN <<value>>
                  ELSE IF p - 1 > offset /\ p - 1 <= offset + count
                    THEN b.buf[p - 1]
                    ELSE b.buf[p]]]

remove_slot_entry_pre(b, slot, index) ==
  /\ slot % b.spacing = 0
  /\ index < b.spacing
  /\ slot + b.spacing <= b.len
  /\ IsInit(CellAt(b, slot + index))

\* the vacated last cell of the slot is zeroed in debug builds and keeps a
\* stale copy otherwise: it holds no value
remove_slot_entry(b, slot, index) ==
  IF ~(index < b.spacing /\ slot + b.spacing <= b.len)
    THEN [b |-> b, ret |-> NoCell]
    ELSE LET offset == slot + index
             count  == b.spacing - index - 1
         IN [b |-> [b EXCEPT !.buf =
                      <<>> \o [p \in 1 .. Len(b.buf) |->
                         IF p - 1 >= offset /\ p - 1 < offset + count
                           THEN b.buf[p + 1]
                         ELSE IF p - 1 = offset + count THEN NoCell
                         ELSE b.buf[p]]],
             ret |-> CellAt(b, offset)]

Min2(a, b) == IF a < b THEN a ELSE b

move_slot_pre(src, slot, dst) ==
  /\ slot < src.len
  /\ slot % src.spacing = 0
  /\ Min2(src.spacing, dst.spacing) > 0
  /\ slot + Min2(src.spacing, dst.spacing) <= src.len

\* move_slot that does not free the slot moved from
move_slot_leaky(src, slot, dst) ==
  LET nitems == Min2(src.spacing, dst.spacing)
      Copy(al) ==
        [src  |-> src,
         dst  |-> [al.b EXCEPT !.buf =
                     <<>> \o [p \in 1 .. Len(al.b.buf) |->
                        IF p - 1 >= al.slot /\ p - 1 < al.slot + nitems
                          THEN CellAt(src, slot + (p - 1 - al.slot))
                          ELSE al.b.buf[p]]],
         slot |-> al.slot]
  IN Copy(alloc_slot(dst))

\* move_slot that leaves the last of the moved cells behind
move_slot_one_short(src, slot, dst) ==
  LET nitems == Min2(src.spacing, dst.spacing) - 1
      Copy(al) ==
        [src  |-> free_slot(src, slot),
         dst  |-> [al.b EXCEPT !.buf =
                     <<>> \o [p \in 1 .. Len(al.b.buf) |->
                        IF p - 1 >= al.slot /\ p - 1 < al.slot + nitems
                          THEN CellAt(src, slot + (p - 1 - al.slot))
                          ELSE al.b.buf[p]]],
         slot |-> al.slot]
  IN Copy(alloc_slot(dst))

\* move_slot that copies the cells in the reverse order
move_slot_reversed(src, slot, dst) ==
  LET nitems == Min2(src.spacing, dst.spacing)
      Copy(al) ==
        [src  |-> free_slot(
                    [src EXCEPT !.buf =
                       <<>> \o [p \in 1 .. Len(src.buf) |->
                          IF p - 1 >= slot /\ p - 1 < slot + nitems
                            THEN NoCell
                            ELSE src.buf[p]]],
                    slot),
         dst  |-> [al.b EXCEPT !.buf =
                     <<>> \o [p \in 1 .. Len(al.b.buf) |->
                        IF p - 1 >= al.slot /\ p - 1 < al.slot + nitems
                          THEN CellAt(src, slot + (nitems - 1 - (p - 1 - al.slot)))
                          ELSE al.b.buf[p]]],
         slot |-> al.slot]
  IN Copy(alloc_slot(dst))

\* the source cells are moved out: zeroed in debug builds, stale otherwise
move_slot(src, slot, dst) ==
  LET nitems == Min2(src.spacing, dst.spacing)
      Copy(al) ==
        [src  |-> free_slot(
                    [src EXCEPT !.buf =
                       <<>> \o [p \in 1 .. Len(src.buf) |->
                          IF p - 1 >= slot /\ p - 1 < slot + nitems
                            THEN NoCell
                            ELSE src.buf[p]]],
                    slot),
         dst  |-> [al.b EXCEPT !.buf =
                     <<>> \o [p \in 1 .. Len(al.b.buf) |->
                        IF p - 1 >= al.slot /\ p - 1 < al.slot + nitems
                          THEN CellAt(src, slot + (p - 1 - al.slot))
                          ELSE al.b.buf[p]]],
         slot |-> al.slot]
  IN Copy(alloc_slot(dst))

(***************************************************************************)
(* allocator.rs: Allocator.  An allocator is [buckets, err]: buckets maps  *)
(* the bucket index 0 .. 8 to its BucketVec, err records the first failed  *)
(* assertion or illegal memory access.                                     *)
(***************************************************************************)
\* LEN2BUCKET that keeps a collection of 12 in the bucket of 8
LEN2BUCKET_late ==
  << 0, 0, 1, 2, 2, 3, 3, 4, 4, 5, 5, 5, 4, 6, 6, 6, 6, 7, 7, 7, 7, 7, 7, 7, 7,
     8, 8, 8, 8, 8, 8, 8, 8 >>

LEN2BUCKET ==
  << 0, 0, 1, 2, 2, 3, 3, 4, 4, 5, 5, 5, 5, 6, 6, 6, 6, 7, 7, 7, 7, 7, 7, 7, 7,
     8, 8, 8, 8, 8, 8, 8, 8 >>

choose_bucket_pre(len) == len < 33

choose_bucket(len) == IF len < 33 THEN LEN2BUCKET[len + 1] ELSE 8

SPACINGS == << 1, 2, 4, 6, 8, 12, 16, 24, 32 >>

\* Allocator::with_capacity
NewAllocator ==
  [buckets |-> [i \in 0 .. 8 |-> NewBucketVec(SPACINGS[i + 1])], err |-> "ok"]

\* Allocator::alloc
A_alloc(a, count) ==
  LET bucket_index == choose_bucket(count)
      Got(al) ==
        [a   |-> [a EXCEPT !.buckets[bucket_index] = al.b,
                           !.err = Chk(@, choose_bucket_pre(count), "choose_bucket")],
         hdl |-> [len |-> count, offset |-> al.slot]]
  IN Got(alloc_slot(a.buckets[bucket_index]))

\* Allocator::free that leaves the offset in the handle
A_free_keeps_offset(a, hdl) ==
  LET bucket_index == choose_bucket(hdl.len)
  IN [a   |-> [a EXCEPT !.buckets[bucket_index] = free_slot(@, hdl.offset),
                        !.err = Chk(@, hdl.len = 0, "free: non-empty collection")],
      hdl |-> hdl]

\* Allocator::free
A_free(a, hdl) ==
  LET bucket_index == choose_bucket(hdl.len)
  IN [a   |-> [a EXCEPT !.buckets[bucket_index] = free_slot(@, hdl.offset),
                        !.err = Chk(@, hdl.len = 0, "free: non-empty collection")],
      hdl |-> [hdl EXCEPT !.offset = 0]]

\* Allocator::set
A_set(a, hdl, index, value) ==
  LET bucket_index == choose_bucket(hdl.len)
      b == a.buckets[bucket_index]
  IN [a EXCEPT !.buckets[bucket_index] = set_slot_entry(b, hdl.offset, index, value),
               !.err = Chk(Chk(@, choose_bucket_pre(hdl.len), "choose_bucket"),
                           set_slot_entry_pre(b, hdl.offset, index),
                           "set_slot_entry")]

\* Allocator::replace that returns the old value and stores nothing
A_replace_unwritten(a, hdl, index, value) ==
  [a   |-> a,
   ret |-> replace_slot_entry(a.buckets[choose_bucket(hdl.len)], hdl.offset,
                              index, value).ret]

\* Allocator::replace
A_replace(a, hdl, index, value) ==
  LET bucket_index == choose_bucket(hdl.len)
      b == a.buckets[bucket_index]
      Got(r) ==
        [a   |-> [a EXCEPT !.buckets[bucket_index] = r.b,
                           !.err = Chk(Chk(@, choose_bucket_pre(hdl.len), "choose_bucket"),
                                       replace_slot_entry_pre(b, hdl.offset, index),
                                       "replace_slot_entry")],
         ret |-> r.ret]
  IN Got(replace_slot_entry(b, hdl.offset, index, value))

\* Allocator::get: the cell read, and whether the read is legal
A_get_pre(a, hdl, index) ==
  /\ choose_bucket_pre(hdl.len)
  /\ get_slot_entry_pre(a.buckets[choose_bucket(hdl.len)], hdl.offset, index)

A_get(a, hdl, index) ==
  get_slot_entry(a.buckets[choose_bucket(hdl.len)], hdl.offset, index)

\* Allocator::get_mut, and value written through the reference it returns
A_get_mut_write(a, hdl, index, value) ==
  LET bucket_index == choose_bucket(hdl.len)
      Write(b, ok) ==
        [a EXCEPT !.buckets[bucket_index] =
                    IF ok THEN [b EXCEPT !.buf[hdl.offset + index + 1] = <<value>>]
                    ELSE b,
                  !.err = Chk(Chk(@, choose_bucket_pre(hdl.len), "choose_bucket"),
                              ok, "get_slot_entry_mut")]
      At(b) == Write(b, get_slot_entry_pre(b, hdl.offset, index))
  IN At(a.buckets[bucket_index])

\* Allocator::insert
A_insert(a, hdl, index, value) ==
  LET bucket_index      == choose_bucket(hdl.len)
      next_bucket_index == choose_bucket(hdl.len + 1)
      e1 == Chk(Chk(a.err, choose_bucket_pre(hdl.len + 1), "choose_bucket"),
                a.buckets[bucket_index].len >= hdl.offset,
                "insert: offset beyond bucket")
      \* the entry inserted at slot of the bucket next_bucket_index of bk
      Put(bk, slot, e) ==
        [a   |-> [buckets |-> [bk EXCEPT ![next_bucket_index] =
                                 insert_slot_entry(@, slot, index, value)],
                  err |-> Chk(e, insert_slot_entry_pre(bk[next_bucket_index],
                                                       slot, index),
                              "insert_slot_entry")],
         hdl |-> [len |-> hdl.len + 1, offset |-> slot]]
      \* move to bigger bucket
      Moved(mv) ==
        Put([a.buckets EXCEPT ![bucket_index] = mv.src,
                              ![next_bucket_index] = mv.dst],
            mv.slot,
            Chk(Chk(e1, next_bucket_index > bucket_index, "insert: smaller bucket"),
                move_slot_pre(a.buckets[bucket_index], hdl.offset,
                              a.buckets[next_bucket_index]),
                "move_slot"))
  IN IF bucket_index # next_bucket_index
       THEN Moved(move_slot(a.buckets[bucket_index], hdl.offset,
                            a.buckets[next_bucket_index]))
       ELSE Put(a.buckets, hdl.offset, e1)

\* Allocator::remove
A_remove(a, hdl, index) ==
  IF hdl.len = 0
    THEN [a |-> [a EXCEPT !.err = Chk(@, FALSE, "remove: len underflow")],
          hdl |-> hdl, ret |-> NoCell]
    ELSE
  LET bucket_index      == choose_bucket(hdl.len)
      next_bucket_index == choose_bucket(hdl.len - 1)
      b  == a.buckets[bucket_index]
      e1 == Chk(Chk(a.err, choose_bucket_pre(hdl.len), "choose_bucket"),
                remove_slot_entry_pre(b, hdl.offset, index), "remove_slot_entry")
      Got(bk, slot, e, ret) ==
        [a   |-> [buckets |-> bk, err |-> e],
         hdl |-> [len |-> hdl.len - 1, offset |-> slot],
         ret |-> ret]
      \* move to smaller bucket
      Moved(rm, mv) ==
        Got([a.buckets EXCEPT ![bucket_index] = mv.src,
                              ![next_bucket_index] = mv.dst],
            mv.slot,
            Chk(Chk(e1, next_bucket_index < bucket_index, "remove: larger bucket"),
                move_slot_pre(rm.b, hdl.offset, a.buckets[next_bucket_index]),
                "move_slot"),
            rm.ret)
      Removed(rm) ==
        IF bucket_index # next_bucket_index
          THEN Moved(rm, move_slot(rm.b, hdl.offset, a.buckets[next_bucket_index]))
          ELSE Got([a.buckets EXCEPT ![bucket_index] = rm.b], hdl.offset, e1, rm.ret)
  IN Removed(remove_slot_entry(b, hdl.offset, index))

(***************************************************************************)
(* tree_bitmap/mod.rs: TreeBitmap.  A table is                             *)
(* [trienodes, results, len, should_drop, err]; an Option is <<>> (None)   *)
(* or <<x>>.                                                               *)
(***************************************************************************)
None == <<>>

Some(x) == <<x>>

\* an operation has aborted
Failed(T) == T.err # "ok" \/ T.trienodes.err # "ok" \/ T.results.err # "ok"

\* *self.trienodes.get(hdl, index)
NodeAt(a, hdl, index) ==
  LET Read(c) == IF IsInit(c) THEN c[1] ELSE NewNode
  IN Read(A_get(a, hdl, index))

\* the value moved out of a cell
Unwrap(c) == IF IsInit(c) THEN c[1] ELSE 0

\* TreeBitmap::root_handle
root_handle == generate(1, 0)

\* with_capacity whose root node is an endnode
with_capacity_endnode_root ==
  LET Rooted(ins) ==
        [trienodes |-> ins.a, results |-> NewAllocator, len |-> 0,
         should_drop |-> TRUE, err |-> "ok"]
      Alloc(al) == Rooted(A_insert(al.a, al.hdl, 0, make_endnode(NewNode)))
  IN Alloc(A_alloc(NewAllocator, 0))

\* TreeBitmap::with_capacity
with_capacity ==
  LET Rooted(ins) ==
        [trienodes |-> ins.a, results |-> NewAllocator, len |-> 0,
         should_drop |-> TRUE, err |-> "ok"]
      Alloc(al) == Rooted(A_insert(al.a, al.hdl, 0, NewNode))
  IN Alloc(A_alloc(NewAllocator, 0))

RECURSIVE push_down_loop(_, _, _, _, _)
\* the body of 'for _ in 0..nodes_to_pushdown', k iterations left
push_down_loop(T, result_hdl, child_node_hdl, remove_at, k) ==
  IF k = 0 \/ Failed(T)
    THEN [T |-> T, result_hdl |-> result_hdl, child_node_hdl |-> child_node_hdl]
    ELSE
  LET \* append trienode to collection
      Appended(rm, ins, insN) ==
        push_down_loop(
          [T EXCEPT !.results = ins.a, !.trienodes = insN.a,
                    !.err = Chk(@, set_internal_pre(NewNode, MSB), "set_internal")],
          rm.hdl, insN.hdl, remove_at, k - 1)
      \* create and save child node
      Put(rm, ins) ==
        Appended(rm, ins,
                 A_insert(T.trienodes, child_node_hdl, child_node_hdl.len,
                          [set_internal(NewNode, MSB) EXCEPT
                             !.result_ptr = ins.hdl.offset]))
      \* put result value in freshly allocated bucket
      Taken(al, rm) == Put(rm, A_insert(rm.a, al.hdl, 0, Unwrap(rm.ret)))
      Alloc(al) == Taken(al, A_remove(al.a, result_hdl, remove_at))
  IN \* allocate space for child result value
     Alloc(A_alloc(T.results, 0))

\* TreeBitmap::push_down
push_down(T, node) ==
  LET e0 == Chk(Chk(T.err, is_endnode(node), "push_down: not an endnode"),
                node.child_ptr = 0, "push_down: child_ptr")
      internal_node_count == count_ones(internal(node) \cap (16 .. 31))
      remove_at == internal_node_count
      nodes_to_pushdown == count_ones(internal(node) \cap (0 .. 15))
      freeing == internal_node_count = 0
      Normal(T1, node1) ==
        [T |-> [T1 EXCEPT !.err = Chk(@, make_normalnode_pre(node1), "make_normalnode")],
         node |-> make_normalnode(node1)]
      Pushed(lp) ==
        Normal([lp.T EXCEPT !.results =
                  IF freeing THEN A_free(@, lp.result_hdl).a ELSE @],
               [node EXCEPT
                  !.result_ptr = IF freeing THEN 0 ELSE lp.result_hdl.offset,
                  !.child_ptr = lp.child_node_hdl.offset])
      Alloc(al) ==
        Pushed(push_down_loop([T EXCEPT !.err = e0, !.trienodes = al.a],
                              result_handle(node), al.hdl, remove_at,
                              nodes_to_pushdown))
  IN IF nodes_to_pushdown > 0
       THEN Alloc(A_alloc(T.trienodes, 0))
       ELSE Normal([T EXCEPT !.err = e0], node)

\* insert's index that counts the bits from the bit above the slot on
index_from_above(bits, bitmap) == count_ones(Shr(bits, trailing_zeros(bitmap) + 1))

\* insert's result_index and child_index:
\* (bits >> bitmap.trailing_zeros()).count_ones()
index_from(bits, bitmap) == count_ones(Shr(bits, trailing_zeros(bitmap)))

\* insert's final branch with 'self.len += 1' left out
insert_final_same_len(T, cur_hdl, cur_index, cur_node, bitmap, value) ==
  LET bit == bitmap \cap END_BIT_MASK
      result_index == index_from(internal(cur_node), bit)
      \* save trie node
      Save(res, e, node, result_hdl, length, r) ==
        [T |-> [T EXCEPT
                  !.results = res,
                  !.len = length,
                  !.trienodes = A_set(@, cur_hdl, cur_index,
                                      [node EXCEPT !.result_ptr = result_hdl.offset]),
                  !.err = e],
         ret |-> r]
      \* key already exists!
      Replaced(result_hdl, rp) ==
        Save(rp.a, T.err, cur_node, result_hdl, T.len, rp.ret)
      \* add result
      Added(ins) ==
        Save(ins.a, Chk(T.err, set_internal_pre(cur_node, bit), "set_internal"),
             set_internal(cur_node, bit), ins.hdl, T.len, None)
      Alloc(al) ==
        IF internal(cur_node) \cap bit # {}
          THEN Replaced(al.hdl, A_replace(al.a, al.hdl, result_index - 1, value))
          ELSE Added(A_insert(al.a, al.hdl, result_index, value))
  IN IF result_count(cur_node) = 0
       THEN Alloc(A_alloc(T.results, 0))
       ELSE Alloc([a |-> T.results, hdl |-> result_handle(cur_node)])

\* TreeBitmap::insert, the 'final node reached' branch (lines 180-201)
insert_final(T, cur_hdl, cur_index, cur_node, bitmap, value) ==
  LET bit == bitmap \cap END_BIT_MASK
      result_index == index_from(internal(cur_node), bit)
      \* save trie node
      Save(res, e, node, result_hdl, length, r) ==
        [T |-> [T EXCEPT
                  !.results = res,
                  !.len = length,
                  !.trienodes = A_set(@, cur_hdl, cur_index,
                                      [node EXCEPT !.result_ptr = result_hdl.offset]),
                  !.err = e],
         ret |-> r]
      \* key already exists!
      Replaced(result_hdl, rp) ==
        Save(rp.a, T.err, cur_node, result_hdl, T.len, rp.ret)
      \* add result
      Added(ins) ==
        Save(ins.a, Chk(T.err, set_internal_pre(cur_node, bit), "set_internal"),
             set_internal(cur_node, bit), ins.hdl, T.len + 1, None)
      Alloc(al) ==
        IF internal(cur_node) \cap bit # {}
          THEN Replaced(al.hdl, A_replace(al.a, al.hdl, result_index - 1, value))
          ELSE Added(A_insert(al.a, al.hdl, result_index, value))
  IN IF result_count(cur_node) = 0
       THEN Alloc(A_alloc(T.results, 0))
       ELSE Alloc([a |-> T.results, hdl |-> result_handle(cur_node)])

\* 'bits_left -= 4' that takes 2 only
bits_left_less_2(bits_left) == bits_left - 2

\* insert's 'bits_left -= 4'
bits_left_less(bits_left) == bits_left - 4

RECURSIVE insert_loop(_, _, _, _, _, _, _)
\* TreeBitmap::insert, one iteration of 'loop' and the iterations after it;
\* with the result, the number of iterations made and bits_left at the return
insert_loop(T, nibbles, value, cur_hdl, cur_index, bits_left, loop_count) ==
  IF Failed(T)
    THEN [T |-> T, ret |-> None, loops |-> loop_count, bits_left |-> bits_left]
  ELSE IF ~A_get_pre(T.trienodes, cur_hdl, cur_index)
    THEN [T |-> [T EXCEPT !.err = "trienodes.get"], ret |-> None,
          loops |-> loop_count + 1, bits_left |-> bits_left]
  ELSE
  LET Return(r) ==
        [T |-> r.T, ret |-> r.ret, loops |-> loop_count + 1, bits_left |-> bits_left]
      nibble == IF loop_count < Len(nibbles) THEN nibbles[loop_count + 1] ELSE 0
      \* bits_left -= 4, and the next iteration
      Continue(T1, hdl, index) ==
        insert_loop([T1 EXCEPT !.err = Chk(@, bits_left >= 4, "bits_left underflow")],
                    nibbles, value, hdl, index, bits_left_less(bits_left), loop_count + 1)
      \* follow existing branch
      Follow(T1, node, ms) ==
        Continue([T1 EXCEPT !.trienodes = A_set(@, cur_hdl, cur_index, node),
                            !.err = Chk(@, ms.kind = "Chase", "unreachable")],
                 ms.hdl, ms.index)
      \* no existing branch; create it, and prepare a child node
      Create(T1, node, bit, child_index, ins) ==
        Continue([T1 EXCEPT
                    !.trienodes = A_set(ins.a, cur_hdl, cur_index,
                                        [set_external(node, bit) EXCEPT
                                           !.child_ptr = ins.hdl.offset]),
                    !.err = Chk(Chk(@, set_external_pre(node, bit), "set_external"),
                                make_endnode_pre(NewNode), "make_endnode")],
                 ins.hdl, child_index)
      Branch(T1, node, bitmap, child_index, al) ==
        IF external(node) \cap (bitmap \cap END_BIT_MASK) = {}
          THEN Create(T1, node, bitmap \cap END_BIT_MASK, child_index,
                      A_insert(al.a, al.hdl, child_index, make_endnode(NewNode)))
          ELSE Follow([T1 EXCEPT !.trienodes = al.a], node,
                      match_segment(node, nibble))
      \* add a branch
      AddBranch(T1, node, bitmap) ==
        Branch(T1, node, bitmap,
               index_from(external(node), bitmap),
               IF child_count(node) = 0
                 THEN A_alloc(T1.trienodes, 0)
                 ELSE [a |-> T1.trienodes, hdl |-> child_handle(node)])
      PushedDown(pd, bitmap) == AddBranch(pd.T, pd.node, bitmap)
      Look(cur_node, match_result, bitmap) ==
        IF match_result.kind = "Chase" /\ bits_left >= 4
          THEN \* follow existing branch
               insert_loop(T, nibbles, value, match_result.hdl, match_result.index,
                           bits_left_less(bits_left), loop_count + 1)
        ELSE IF ~gen_bitmap_pre(nibble, Min2(4, bits_left))
          THEN Return([T |-> [T EXCEPT !.err = "gen_bitmap"], ret |-> None])
        ELSE IF (is_endnode(cur_node) /\ bits_left <= 4) \/ bits_left <= 3
          THEN \* final node reached, insert results
               Return(insert_final(T, cur_hdl, cur_index, cur_node, bitmap, value))
        ELSE IF is_endnode(cur_node)
          THEN \* move any result pointers out of the way
               PushedDown(push_down(T, cur_node), bitmap)
        ELSE AddBranch(T, cur_node, bitmap)
      Visit(cur_node) ==
        Look(cur_node, match_segment(cur_node, nibble),
             gen_bitmap(nibble, Min2(4, bits_left)))
  IN Visit(NodeAt(T.trienodes, cur_hdl, cur_index))

\* TreeBitmap::insert
insert(T, nibbles, masklen, value) ==
  insert_loop(T, nibbles, value, root_handle, 0, masklen, 0)

RECURSIVE longest_match_loop(_, _, _, _, _, _, _, _)
\* TreeBitmap::longest_match, the iterations of 'for nibble in nibbles' from
\* nibble number i on; best_match is an Option of <<result_hdl, result_index>>
longest_match_loop(T, nibbles, i, cur_hdl, cur_index, bits_matched, bits_searched, best_match) ==
  IF i >= Len(nibbles)
    THEN [bits_matched |-> bits_matched, best_match |-> best_match, err |-> "ok"]
  ELSE IF ~A_get_pre(T.trienodes, cur_hdl, cur_index)
    THEN [bits_matched |-> bits_matched, best_match |-> best_match,
          err |-> "trienodes.get"]
  ELSE
  LET Chase(cur_node, me, bm, best) ==
        IF is_endnode(cur_node)
          THEN [bits_matched |-> bm, best_match |-> best, err |-> "ok"]
        ELSE IF me.kind = "Chase"
          THEN longest_match_loop(T, nibbles, i + 1, me.hdl, me.index, bm,
                                  bits_searched + 4, best)
        ELSE [bits_matched |-> bm, best_match |-> best, err |-> "ok"]
      Matched(cur_node, match_mask, mi) ==
        IF mi.kind = "Match"
          THEN Chase(cur_node, match_external(cur_node, match_mask),
                     bits_searched + BIT_MATCH[mi.bit + 1],
                     Some(<<mi.hdl, mi.index>>))
          ELSE Chase(cur_node, match_external(cur_node, match_mask),
                     bits_matched, best_match)
      Visit(cur_node, match_mask) ==
        Matched(cur_node, match_mask, match_internal(cur_node, match_mask))
  IN Visit(NodeAt(T.trienodes, cur_hdl, cur_index), MATCH_MASKS[nibbles[i + 1] + 1])

\* TreeBitmap::longest_match: ret is an Option of <<bits_matched, value>>
longest_match(T, nibbles) ==
  LET Get(bits_matched, result_hdl, result_index) ==
        IF A_get_pre(T.results, result_hdl, result_index)
          THEN [ret |-> Some(<<bits_matched,
                               Unwrap(A_get(T.results, result_hdl, result_index))>>),
                err |-> "ok"]
          ELSE [ret |-> None, err |-> "results.get"]
      Found(r) ==
        IF r.err # "ok" THEN [ret |-> None, err |-> r.err]
        ELSE IF r.best_match = None THEN [ret |-> None, err |-> "ok"]
        ELSE Get(r.bits_matched, r.best_match[1][1], r.best_match[1][2])
  IN Found(longest_match_loop(T, nibbles, 0, root_handle, 0, 0, 0, None))

RECURSIVE exact_match_loop(_, _, _, _, _, _)
\* TreeBitmap::exact_match, the iterations from nibble number i on
exact_match_loop(T, nibbles, i, cur_hdl, cur_index, bits_left) ==
  IF i >= Len(nibbles) THEN [ret |-> None, err |-> "ok"]
  ELSE IF ~A_get_pre(T.trienodes, cur_hdl, cur_index)
    THEN [ret |-> None, err |-> "trienodes.get"]
  ELSE IF ~gen_bitmap_pre(nibbles[i + 1], Min2(bits_left, 4))
    THEN [ret |-> None, err |-> "gen_bitmap"]
  ELSE
  LET Final(mi) ==
        IF mi.kind # "Match" THEN [ret |-> None, err |-> "ok"]
        ELSE IF A_get_pre(T.results, mi.hdl, mi.index)
          THEN [ret |-> Some(Unwrap(A_get(T.results, mi.hdl, mi.index))),
                err |-> "ok"]
        ELSE [ret |-> None, err |-> "results.get"]
      Chase(me) ==
        IF me.kind # "Chase" THEN [ret |-> None, err |-> "ok"]
        ELSE IF bits_left < 4
          THEN [ret |-> None, err |-> "bits_left underflow"]
        ELSE exact_match_loop(T, nibbles, i + 1, me.hdl, me.index, bits_left - 4)
      Visit(cur_node, bitmap) ==
        IF bits_left < 4 \/ (is_endnode(cur_node) /\ bits_left = 4)
          THEN Final(match_internal(cur_node, bitmap))
          ELSE Chase(match_external(cur_node, bitmap))
  IN Visit(NodeAt(T.trienodes, cur_hdl, cur_index),
           gen_bitmap(nibbles[i + 1], Min2(bits_left, 4)) \cap END_BIT_MASK)

\* TreeBitmap::exact_match
exact_match(T, nibbles, masklen) ==
  exact_match_loop(T, nibbles, 0, root_handle, 0, masklen)

RECURSIVE remove_child(_, _, _, _, _)
\* TreeBitmap::remove_child on the slice nibbles[d..]
remove_child(T, node, nibbles, d, masklen) ==
  IF Failed(T) THEN [T |-> T, node |-> node, ret |-> None]
  ELSE IF d >= Len(nibbles)
    THEN [T |-> [T EXCEPT !.err = "nibbles[0]: index out of range"],
          node |-> node, ret |-> None]
  ELSE IF ~gen_bitmap_pre(nibbles[d + 1], Min2(masklen, 4))
    THEN [T |-> [T EXCEPT !.err = "gen_bitmap"], node |-> node, ret |-> None]
  ELSE
  LET Miss == [T |-> T, node |-> node, ret |-> None]
      \* the result removed from the final node
      Freed(node1, res, hdl, r) ==
        [T |-> [T EXCEPT
                  !.results = res,
                  !.len = IF @ > 0 THEN @ - 1 ELSE @,
                  !.err = Chk(@, T.len > 0, "len underflow")],
         node |-> [node1 EXCEPT !.result_ptr = hdl.offset],
         ret |-> r]
      Removed(node1, rm) ==
        IF result_count(node1) = 0
          THEN Freed(node1, A_free(rm.a, rm.hdl).a, A_free(rm.a, rm.hdl).hdl, rm.ret)
          ELSE Freed(node1, rm.a, rm.hdl, rm.ret)
      Final(bitmap, mi) ==
        IF mi.kind # "Match" THEN Miss
        ELSE IF ~unset_internal_pre(node, bitmap)
          THEN [T |-> [T EXCEPT !.err = "unset_internal"], node |-> node,
                ret |-> None]
        ELSE Removed(unset_internal(node, bitmap),
                     A_remove(T.results, mi.hdl, mi.index))
      \* the empty child taken out of the node's children
      Unlinked(T1, bitmap, rm, r) ==
        [T |-> [T1 EXCEPT
                  !.trienodes = IF rm.hdl.len = 0 THEN A_free(rm.a, rm.hdl).a
                                ELSE rm.a,
                  !.err = Chk(@, unset_external_pre(node, bitmap), "unset_external")],
         node |-> [unset_external(node, bitmap) EXCEPT
                     !.child_ptr = IF rm.hdl.len = 0
                                     THEN A_free(rm.a, rm.hdl).hdl.offset
                                     ELSE rm.hdl.offset],
         ret |-> r]
      Kept(T1, bitmap, me, child_node, r) ==
        IF is_empty(child_node)
          THEN Unlinked(T1, bitmap, A_remove(T1.trienodes, me.hdl, me.index), r)
          ELSE [T |-> [T1 EXCEPT
                         !.trienodes = A_set(@, me.hdl, me.index, child_node)],
                node |-> [node EXCEPT !.child_ptr = me.hdl.offset],
                ret |-> r]
      Returned(bitmap, me, rc) ==
        IF Failed(rc.T) THEN [T |-> rc.T, node |-> node, ret |-> None]
        ELSE IF child_count(rc.node) = 0 /\ ~is_endnode(rc.node)
          THEN Kept([rc.T EXCEPT !.err = Chk(@, make_endnode_pre(rc.node),
                                             "make_endnode")],
                    bitmap, me, make_endnode(rc.node), rc.ret)
        ELSE Kept(rc.T, bitmap, me, rc.node, rc.ret)
      Chase(bitmap, me) ==
        IF me.kind # "Chase" THEN Miss
        ELSE IF ~A_get_pre(T.trienodes, me.hdl, me.index)
          THEN [T |-> [T EXCEPT !.err = "trienodes.get"], node |-> node,
                ret |-> None]
        ELSE Returned(bitmap, me,
                      remove_child([T EXCEPT !.err = Chk(@, masklen >= 4,
                                                         "masklen underflow")],
                                   NodeAt(T.trienodes, me.hdl, me.index),
                                   nibbles, d + 1, masklen - 4))
      Visit(bitmap) ==
        IF masklen < 4 \/ (is_endnode(node) /\ masklen = 4)
          THEN Final(bitmap, match_internal(node, bitmap))
          ELSE Chase(bitmap, match_external(node, bitmap))
  IN Visit(gen_bitmap(nibbles[d + 1], Min2(masklen, 4)) \cap END_BIT_MASK)

\* TreeBitmap::remove
remove(T, nibbles, masklen) ==
  LET Saved(rc) ==
        [T   |-> [rc.T EXCEPT !.trienodes = A_set(@, root_handle, 0, rc.node)],
         ret |-> rc.ret]
  IN Saved(remove_child(
             [T EXCEPT !.err = Chk(Chk(@, Len(nibbles) >= masklen \div 4,
                                       "remove: too few nibbles"),
                                   A_get_pre(T.trienodes, root_handle, 0),
                                   "trienodes.get")],
             NodeAt(T.trienodes, root_handle, 0), nibbles, 0, masklen))

(***************************************************************************)
(* tree_bitmap/mod.rs: iteration.  An iterator is [path, nibbles]; path is *)
(* a sequence of PathElem [node, pos].                                     *)
(***************************************************************************)
\* PREFIX_OF_BIT with the entry of pos 2 (prefix 1/1) read as 0
PREFIX_OF_BIT_wrong ==
  << 0, 0, 0, 0, 4, 8, 12, 0,
     2, 4, 6, 8, 10, 12, 14, 0,
     0, 1, 2, 3, 4, 5, 6, 7,
     8, 9, 10, 11, 12, 13, 14, 15 >>

\* PREFIX_OF_BIT with the entries of pos 21 and pos 25 (nibbles 5 and 9)
\* exchanged
PREFIX_OF_BIT_swapped ==
  << 0, 0, 8, 0, 4, 8, 12, 0,
     2, 4, 6, 8, 10, 12, 14, 0,
     0, 1, 2, 3, 4, 9, 6, 7,
     8, 5, 10, 11, 12, 13, 14, 15 >>

\* indexed by pos, 0 .. 31
PREFIX_OF_BIT ==
  << 0, 0, 8, 0, 4, 8, 12, 0,
     2, 4, 6, 8, 10, 12, 14, 0,
     0, 1, 2, 3, 4, 5, 6, 7,
     8, 9, 10, 11, 12, 13, 14, 15 >>

\* Vec::pop, the vector that is left
PopBack(v) == IF v = <<>> THEN v ELSE SubSeq(v, 1, Len(v) - 1)

\* TreeBitmap::iter / iter_mut / into_iter: the iterator's fields
iter(T) ==
  [path |-> << [node |-> NodeAt(T.trienodes, root_handle, 0), pos |-> 0] >>,
   nibbles |-> << 0 >>]

RECURSIVE next(_, _, _)
\* fn next: ret is an Option of [nibbles, bits_matched, hdl, index].  The
\* iterations of 'loop' that only step pos are taken at once: the element
\* popped goes to the first pos whose bit is set, or is dropped at pos 32
next(T, path, nibbles) ==
  IF path = <<>>
    THEN [ret |-> None, path |-> path, nibbles |-> nibbles, err |-> "ok"]
  ELSE
  LET path0    == PopBack(path)
      nibbles0 == PopBack(nibbles)
      cur_node == path[Len(path)].node
      start    == IF path[Len(path)].pos = 0 /\ result_count(cur_node) = 0
                    THEN 16
                    ELSE path[Len(path)].pos
      Internal(p) == p < 16 \/ is_endnode(cur_node)
      \* pos p matches: its bit is set in the half of the bitmap it is looked
      \* up in
      Hits(endnode, int, ext) ==
        {p \in start .. 31 :
           IF p < 16 \/ endnode THEN 31 - p \in int ELSE 31 - p \in ext}
      \* match internal
      Matched(path1, nibbles1, mi) ==
        [ret |-> Some([nibbles |-> nibbles1,
                       bits_matched |-> (Len(path1) - 1) * 4 + BIT_MATCH[mi.bit + 1],
                       hdl |-> mi.hdl, index |-> mi.index]),
         path |-> path1, nibbles |-> nibbles1, err |-> "ok"]
      Chased(path1, nibbles1, me) ==
        IF A_get_pre(T.trienodes, me.hdl, me.index)
          THEN next(T,
                    Append(path1, [node |-> NodeAt(T.trienodes, me.hdl, me.index),
                                   pos |-> 0]),
                    Append(nibbles1, 0))
          ELSE [ret |-> None, path |-> path1, nibbles |-> nibbles1,
                err |-> "trienodes.get"]
      At(cur_pos, path1, nibbles1) ==
        IF Internal(cur_pos)
          THEN Matched(path1, nibbles1, match_internal(cur_node, Bit(31 - cur_pos)))
          ELSE Chased(path1, nibbles1, match_external(cur_node, Bit(31 - cur_pos)))
      Step(cur_pos) ==
        At(cur_pos, Append(path0, [node |-> cur_node, pos |-> cur_pos + 1]),
           Append(nibbles0, PREFIX_OF_BIT[cur_pos + 1]))
      Scan(hits) == IF hits = {} THEN next(T, path0, nibbles0) ELSE Step(SetMin(hits))
  IN Scan(Hits(is_endnode(cur_node), internal(cur_node), external(cur_node)))

\* Iterator::next of Iter, IterMut and IntoIter: the item is
\* <<nibbles, masklen, value>>
iter_next(T, it) ==
  LET Item(r, found) ==
        IF r.err # "ok" THEN [item |-> None, it |-> it, err |-> r.err]
        ELSE IF ~found
          THEN [item |-> None, it |-> [path |-> r.path, nibbles |-> r.nibbles],
                err |-> "ok"]
        ELSE IF ~A_get_pre(T.results, r.ret[1].hdl, r.ret[1].index)
          THEN [item |-> None, it |-> it, err |-> "results.get"]
        ELSE [item |-> Some(<< r.ret[1].nibbles, r.ret[1].bits_matched,
                               Unwrap(A_get(T.results, r.ret[1].hdl,
                                            r.ret[1].index)) >>),
              it   |-> [path |-> r.path, nibbles |-> r.nibbles],
              err  |-> "ok"]
      Got(r) == Item(r, r.ret # None)
  IN Got(next(T, it.path, it.nibbles))

RECURSIVE collect(_, _)
\* the items an iterator yields until it returns None
collect(T, it) ==
  LET More(r) == IF r.item = None THEN <<>> ELSE <<r.item[1]>> \o collect(T, r.it)
  IN More(iter_next(T, it))

RECURSIVE iter_mut_loop(_, _, _, _, _)
\* 'for (_, _, val) in tbm.iter_mut()' with '*val = value' at the j-th item
\* and no write at the others: the table left, the <<nibbles, masklen>>
\* yielded and the value overwritten
iter_mut_loop(T, it, j, value, seen) ==
  LET Next(r, res, old) ==
        iter_mut_loop([T EXCEPT !.results = res],
                      [path |-> r.path, nibbles |-> r.nibbles], j - 1, value,
                      [seen |-> Append(seen.seen, <<r.ret[1].nibbles,
                                                   r.ret[1].bits_matched>>),
                       old  |-> old])
      Got(r) ==
        IF r.err # "ok"
          THEN [T |-> [T EXCEPT !.err = r.err], seen |-> seen.seen, old |-> seen.old]
        ELSE IF r.ret = None
          THEN [T |-> T, seen |-> seen.seen, old |-> seen.old]
        ELSE IF j = 1
          THEN Next(r, A_get_mut_write(T.results, r.ret[1].hdl, r.ret[1].index, value),
                    A_get(T.results, r.ret[1].hdl, r.ret[1].index))
        ELSE Next(r, T.results, seen.old)
  IN IF Failed(T) THEN [T |-> T, seen |-> seen.seen, old |-> seen.old]
     ELSE Got(next(T, it.path, it.nibbles))

\* TreeBitmap::iter_mut and the loop over it
iter_mut_write(T, j, value) ==
  iter_mut_loop(T, iter(T), j, value, [seen |-> <<>>, old |-> None])

(***************************************************************************)
(* address.rs: the Address adapter, for addresses of NumNibbles nibbles.   *)
(* An address is the number its bits spell (u32::from(Ipv4Addr)).          *)
(***************************************************************************)
Width == 4 * NumNibbles

RECURSIVE Pow(_, _)
Pow(b, e) == IF e = 0 THEN 1 ELSE b * Pow(b, e - 1)

\* the prefix of length m of the nibble, as gen_bitmap takes it
NibblePrefix(nibble, m) == (nibble \div Pow(2, 4 - m)) * Pow(2, 4 - m)

\* nibbles that puts the least significant group first
nibbles_lsb_first(a) == [i \in 1 .. NumNibbles |-> (a \div Pow(16, i - 1)) % 16]

\* Address::nibbles: the 4-bit groups, most significant first
nibbles(a) == [i \in 1 .. NumNibbles |-> (a \div Pow(16, NumNibbles - i)) % 16]

RECURSIVE from_nibbles_sum(_, _, _)
from_nibbles_sum(nibs, i, lim) ==
  IF i > lim THEN 0
  ELSE nibs[i] * Pow(16, NumNibbles - i) + from_nibbles_sum(nibs, i + 1, lim)

\* Address::from_nibbles: as many nibbles as fit, the rest zero
from_nibbles(nibs) == from_nibbles_sum(nibs, 1, Min2(NumNibbles, Len(nibs)))

\* Address::mask: ip & (!0 << (width - n)), and 0 for n = 0
mask(a, masklen) ==
  IF masklen = 0 THEN 0
  ELSE (a \div Pow(2, Width - masklen)) * Pow(2, Width - masklen)

\* the bit of a at position pos, position 0 the most significant
bit_at(a, pos) == (a \div Pow(2, Width - 1 - pos)) % 2

RECURSIVE BitAnd(_, _, _)
\* x & y on words of the given number of bits
BitAnd(x, y, bits) ==
  IF bits = 0 THEN 0
  ELSE (x % 2) * (y % 2) + 2 * BitAnd(x \div 2, y \div 2, bits - 1)

\* x << k on a word of the given number of bits: the bits shifted out are
\* lost, and a shift by the word size or more is an overflow
shl(x, k, bits) ==
  IF k < bits
    THEN [out |-> (x % Pow(2, bits - k)) * Pow(2, k), err |-> "ok"]
    ELSE [out |-> 0, err |-> "shl overflow"]

\* Ipv4Addr::mask that shifts for masklen 0 as well
mask_ipv4_always_shifts(a, masklen) ==
  LET Masked(s) ==
        [out |-> BitAnd(a, s.out, Width),
         err |-> Chk(Chk("ok", masklen <= Width, "masklen"), s.err = "ok", s.err)]
  IN Masked(shl(Pow(2, Width) - 1, Width - masklen, Width))

\* Ipv4Addr::mask with its word operations: the result and what aborts it
mask_ipv4(a, masklen) ==
  LET Masked(s) ==
        [out |-> BitAnd(a, s.out, Width),
         err |-> Chk(Chk("ok", masklen <= Width, "masklen"), s.err = "ok", s.err)]
  IN IF masklen = 0
       THEN [out |-> 0, err |-> Chk("ok", masklen <= Width, "masklen")]
       ELSE Masked(shl(Pow(2, Width) - 1, Width - masklen, Width))

\* Ipv6Addr::mask, the segments being the 4-bit groups of the address (the
\* code's are 16-bit groups): the segments from (masklen + 3) / 4 on are
\* zeroed and, unless masklen is a multiple of 4, segment masklen / 4 is
\* and-ed with !0 << (4 - masklen % 4)
mask_ipv6(a, masklen) ==
  LET Zeroed(segs) ==
        [i \in 1 .. NumNibbles |-> IF i - 1 >= (masklen + 3) \div 4 THEN 0 ELSE segs[i]]
      Part(ret, s, at) ==
        [out |-> from_nibbles(IF at <= NumNibbles
                                THEN [ret EXCEPT ![at] = BitAnd(@, s.out, 4)]
                                ELSE ret),
         err |-> Chk(Chk(Chk("ok", masklen <= Width, "masklen"), s.err = "ok", s.err),
                     at <= NumNibbles, "ret[masklen / 16]")]
      Whole(ret) ==
        IF masklen % 4 # 0
          THEN Part(ret, shl(15, 4 - (masklen % 4), 4), masklen \div 4 + 1)
          ELSE [out |-> from_nibbles(ret), err |-> Chk("ok", masklen <= Width, "masklen")]
  IN Whole(Zeroed(nibbles(a)))

(***************************************************************************)
(* tests/rand_test.rs: the naive list of prefixes the trie is compared     *)
(* with.  The list holds one SlowNode [ip, masklen, value] per prefix.     *)
(***************************************************************************)
RECURSIVE matches_from(_, _, _, _)
\* SlowNode::matches, the nibble pairs from number i on
matches_from(n1, n2, i, remain) ==
  IF i > NumNibbles THEN TRUE
  ELSE LET check == IF remain > 4 THEN 4 ELSE remain
           bits1 == n1[i] \div Pow(2, 4 - check)
           bits2 == n2[i] \div Pow(2, 4 - check)
       IN IF bits1 # bits2 THEN FALSE
          ELSE matches_from(n1, n2, i + 1, remain - check)

\* SlowNode::matches
matches(node, ip) == matches_from(nibbles(ip), nibbles(node.ip), 1, node.masklen)

SlowHas(nodes, ip, masklen) ==
  \E n \in nodes : n.ip = ip /\ n.masklen = masklen

SlowGet(nodes, ip, masklen) ==
  CHOOSE n \in nodes : n.ip = ip /\ n.masklen = masklen

\* SlowRouter::insert
SlowInsert(nodes, ip, masklen, value) ==
  {n \in nodes : ~(n.ip = ip /\ n.masklen = masklen)}
    \cup {[ip |-> ip, masklen |-> masklen, value |-> value]}

\* the list without the prefix
SlowRemove(nodes, ip, masklen) ==
  {n \in nodes : ~(n.ip = ip /\ n.masklen = masklen)}

\* SlowRouter::longest_match: an Option of <<masklen, value>>
SlowLongestMatch(nodes, ip) ==
  LET cover == {n \in nodes : matches(n, ip)}
  IN IF cover = {} THEN None
     ELSE LET best == CHOOSE n \in cover : \A o \in cover : o.masklen <= n.masklen
          IN Some(<<best.masklen, best.value>>)


(***************************************************************************)
(* lib.rs: the lookup table over addresses.                                *)
(***************************************************************************)
\* Ipv4LookupTable::longest_match: an Option of <<address, masklen, value>>
table_longest_match(T, ip) ==
  LET Found(r) ==
        IF r.ret = None THEN [ret |-> None, err |-> r.err]
        ELSE [ret |-> Some(<<mask(ip, r.ret[1][1]), r.ret[1][1], r.ret[1][2]>>),
              err |-> r.err]
  IN Found(longest_match(T, nibbles(ip)))
(***************************************************************************)
(* tree_bitmap/mod.rs: IntoIter and the destructors.  'dropped' counts,    *)
(* per value, the destructor runs.                                         *)
(***************************************************************************)
\* into_iter whose path is empty from the start
into_iter_exhausted(T) ==
  [inner |-> [T EXCEPT !.should_drop = FALSE], it |-> [path |-> <<>>, nibbles |-> <<>>]]

\* into_iter that leaves should_drop set
into_iter_still_dropping(T) ==
  [inner |-> T, it |-> iter(T)]

\* IntoIterator::into_iter: the IntoIter's fields
into_iter(T) ==
  [inner |-> [T EXCEPT !.should_drop = FALSE], it |-> iter(T)]

RECURSIVE drain(_, _, _)
\* 'for item in iterator', each item read and destructed
drain(T, it, dropped) ==
  LET More(r) ==
        IF r.err # "ok" \/ r.item = None
          THEN [dropped |-> dropped, it |-> r.it, err |-> r.err]
          ELSE drain(T, r.it, [dropped EXCEPT ![r.item[1][3]] = @ + 1])
  IN More(iter_next(T, it))

\* Drop for TreeBitmap
drop_TreeBitmap(T, dropped) ==
  IF T.should_drop
    THEN drain(T, iter(T), dropped)
    ELSE [dropped |-> dropped, it |-> iter(T), err |-> "ok"]

\* Drop for IntoIter, and then the drop of its field 'inner'
drop_IntoIter(T, it, dropped) ==
  LET Inner(d, i) ==
        [dropped |-> i.dropped, it |-> d.it,
         err |-> IF d.err # "ok" THEN d.err ELSE i.err]
      Drained(d) == Inner(d, drop_TreeBitmap(T, d.dropped))
  IN Drained(drain(T, it, dropped))

(***************************************************************************)
(* Inputs.                                                                 *)
(***************************************************************************)
\* the address with first nibble 10, the given second and last nibble, and
\* 5 between them
SeedAddr(second, last) ==
  from_nibbles([i \in 1 .. NumNibbles |->
                  IF i = 1 THEN 10
                  ELSE IF i = 2 THEN second
                  ELSE IF i = NumNibbles THEN last
                  ELSE 5])

\* the addresses the prefixes are cut from
Seeds == { SeedAddr(5, 12), SeedAddr(5, 3), SeedAddr(9, 6) }

\* the masked prefixes <<ip, masklen>>, masklen in 0 ..= width
Keys == {<<mask(s, m), m>> : s \in Seeds, m \in 0 .. Width}

\* the addresses looked up
Addrs ==
  Seeds \cup {k[1] : k \in Keys} \cup {from_nibbles([i \in 1 .. NumNibbles |-> 15])}

\* the values: as in tree_bitmap/mod.rs tests::drop (Thing { id }), every
\* insert hands over a value of its own, the number of the call
Values == 1 .. MaxOps

(***************************************************************************)
(* State.                                                                  *)
(***************************************************************************)
VARIABLES
  trienodes,    \* TreeBitmap.trienodes
  results,      \* TreeBitmap.results
  len,          \* TreeBitmap.len
  should_drop,  \* TreeBitmap.should_drop
  phase,        \* who holds the table: "table" (the caller holds the
                \* TreeBitmap), "into_iter" (an IntoIter holds it), "dropped"
  it,           \* IntoIter.path and IntoIter.nibbles
  err,          \* "ok", or what aborted a call
  op,           \* the last call that returned
  ret,          \* what it returned
  steps,        \* the number of insert and remove calls
  slw,          \* the naive list: the prefixes stored
  owned,        \* per value, how often the caller was handed it back
  dropped,      \* per value, how often the table or an iterator destructed it
  thr,          \* per thread that shares the table: the lookup it is in
  calc,         \* the address function applied last, its input and output
  coll,         \* one collection of an Allocator: the allocator, the handle,
                \* the last call and the sequence the collection stands for
  unit,         \* the node or allocator function applied last, input and output
  bvec          \* a pair of BucketVecs, the slots handed out and the last call

\* the table, its iterator and what is recorded of its calls
tablevars ==
  <<trienodes, results, len, should_drop, phase, it, err, op, ret, steps, slw,
    owned, dropped>>

vars == <<tablevars, thr, calc, coll, unit, bvec>>

\* the table
Tbl ==
  [trienodes |-> trienodes, results |-> results, len |-> len,
   should_drop |-> should_drop, err |-> "ok"]

ErrOf(T) ==
  IF T.err # "ok" THEN T.err
  ELSE IF T.trienodes.err # "ok" THEN T.trienodes.err
  ELSE T.results.err

NoIter == [path |-> <<>>, nibbles |-> <<>>]

\* the threads that hold a shared reference to the table
Threads == {1, 2}

\* a thread in no call.  In a call, i, cur_hdl, cur_index, bits (bits_searched
\* or bits_left), bits_matched and best_match are the locals of the lookup's
\* loop, it is the iterator and ret what the call returns
Idle ==
  [pc |-> "idle", call |-> "none", ip |-> 0, masklen |-> 0, i |-> 0,
   cur_hdl |-> root_handle, cur_index |-> 0, bits |-> 0, bits_matched |-> 0,
   best_match |-> None, it |-> NoIter, ret |-> None]

\* a table mutated while other references to it are in use
Exclusive_unchecked == TRUE

\* '&mut self': no other reference to the table is in use
Exclusive == \A t \in Threads : thr[t].pc = "idle"

\* no address function applied yet
NoCalc ==
  [fn |-> "none", a |-> 0, n |-> 0, nibs |-> <<>>, out |-> 0, prev |-> 0,
   err |-> "ok"]

\* no collection allocated yet
NoColl ==
  [a |-> NewAllocator, hdl |-> generate(0, 0), prev |-> generate(0, 0),
   stored |-> <<>>, before |-> <<>>, op |-> "none", index |-> 0,
   ret |-> NoCell, turns |-> 0, crowded |-> FALSE]

\* no node or allocator function applied yet
NoUnit ==
  [fn |-> "none", node |-> NewNode, mask |-> {}, nibble |-> 0, masklen |-> 0,
   len |-> 0, out |-> None]

\* two BucketVecs, per BucketVec the slots handed out and not freed, the call
\* made last with its arguments and result, and the BucketVecs before it
NoBvec ==
  [b |-> <<NewBucketVec(1), NewBucketVec(1)>>, held |-> <<{}, {}>>,
   fn |-> "none", side |-> 1, slot |-> 0, index |-> 0, value |-> 0,
   ret |-> NoCell, before |-> <<NewBucketVec(1), NewBucketVec(1)>>,
   heldBefore |-> <<{}, {}>>, turns |-> 0]

\* a new table, no thread in a call
InitTable ==
  /\ trienodes = with_capacity.trienodes
  /\ results = with_capacity.results
  /\ len = with_capacity.len
  /\ should_drop = with_capacity.should_drop
  /\ phase = "table"
  /\ it = NoIter
  /\ err = "ok"
  /\ op = "new"
  /\ ret = None
  /\ steps = 0
  /\ slw = {}
  /\ owned = [v \in Values |-> 0]
  /\ dropped = [v \in Values |-> 0]
  /\ thr = [t \in Threads |-> Idle]

Init ==
  /\ InitTable
  /\ calc = NoCalc
  /\ coll = NoColl
  /\ unit = NoUnit
  /\ bvec = NoBvec

\* a call that aborts ends the program
Abort(e) ==
  /\ err' = e
  /\ UNCHANGED <<trienodes, results, len, should_drop, phase, it, op, ret, steps,
                 slw, owned, dropped, thr, calc, coll, unit, bvec>>

\* insert or remove returns r and leaves the table T
Commit(name, T, r) ==
  /\ trienodes' = T.trienodes
  /\ results' = T.results
  /\ len' = T.len
  /\ op' = name
  /\ ret' = r
  /\ steps' = steps + 1
  /\ owned' = IF r = None THEN owned ELSE [owned EXCEPT ![r[1]] = @ + 1]
  /\ UNCHANGED <<should_drop, phase, it, err, dropped, thr, calc, coll, unit, bvec>>

\* tbl.insert(ip, masklen, value), the value being the number of the call
Insert(ip, masklen) ==
  /\ err = "ok" /\ phase = "table"
  /\ Exclusive
  /\ steps < MaxOps
  /\ LET Returned(r) ==
           IF Failed(r.T) THEN Abort(ErrOf(r.T))
           ELSE /\ Commit("insert", r.T, r.ret)
                /\ slw' = SlowInsert(slw, ip, masklen, steps + 1)
     IN Returned(insert(Tbl, nibbles(ip), masklen, steps + 1))

\* tbl.remove(ip, masklen)
Remove(ip, masklen) ==
  /\ err = "ok" /\ phase = "table"
  /\ Exclusive
  /\ steps < MaxOps
  /\ LET Returned(r) ==
           IF Failed(r.T) THEN Abort(ErrOf(r.T))
           ELSE /\ Commit("remove", r.T, r.ret)
                /\ slw' = SlowRemove(slw, ip, masklen)
     IN Returned(remove(Tbl, nibbles(ip), masklen))

\* tbl.longest_match(ip): the table is only read
LongestMatch(ip) ==
  /\ err = "ok" /\ phase = "table"
  /\ Abort(longest_match(Tbl, nibbles(ip)).err)

\* tbl.exact_match(ip, masklen): the table is only read
ExactMatch(ip, masklen) ==
  /\ err = "ok" /\ phase = "table"
  /\ Abort(exact_match(Tbl, nibbles(ip), masklen).err)

\* 'for item in tbl.iter()', the items only read
Iterate ==
  /\ err = "ok" /\ phase = "table"
  /\ Abort(drain(Tbl, iter(Tbl), dropped).err)

\* 'for (_, _, val) in tbl.iter_mut()' that writes the number of the call
\* to the j-th value; the value overwritten is destructed
IterMut(j) ==
  /\ err = "ok" /\ phase = "table"
  /\ Exclusive
  /\ steps < MaxOps
  /\ j <= len
  /\ LET Returned(r) ==
           IF Failed(r.T) THEN Abort(ErrOf(r.T))
           ELSE /\ trienodes' = r.T.trienodes
                /\ results' = r.T.results
                /\ len' = r.T.len
                /\ op' = "iter_mut"
                /\ ret' = None
                /\ steps' = steps + 1
                /\ slw' = SlowInsert(slw, from_nibbles(r.seen[j][1]), r.seen[j][2],
                                     steps + 1)
                /\ dropped' = [dropped EXCEPT ![Unwrap(r.old)] = @ + 1]
                /\ UNCHANGED <<should_drop, phase, it, err, owned, thr, calc, coll, unit, bvec>>
     IN Returned(iter_mut_write(Tbl, j, steps + 1))

\* the caller drops the table
DropTable ==
  /\ err = "ok" /\ phase = "table"
  /\ LET Dropped(d) ==
           IF d.err # "ok" THEN Abort(d.err)
           ELSE /\ dropped' = d.dropped
                /\ phase' = "dropped"
                /\ op' = "drop"
                /\ ret' = None
                /\ UNCHANGED <<trienodes, results, len, should_drop, it, err,
                               steps, slw, owned, thr, calc, coll, unit, bvec>>
     IN Dropped(drop_TreeBitmap(Tbl, dropped))

\* tbl.into_iter()
IntoIter ==
  /\ err = "ok" /\ phase = "table"
  /\ LET Made(i) ==
           /\ should_drop' = i.inner.should_drop
           /\ it' = i.it
     IN Made(into_iter(Tbl))
  /\ phase' = "into_iter"
  /\ op' = "into_iter"
  /\ ret' = None
  /\ UNCHANGED <<trienodes, results, len, err, steps, slw, owned, dropped, thr, calc, coll, unit, bvec>>

\* IntoIter::next: the value is read out of the arena and handed to the caller
IntoIterNext ==
  /\ err = "ok" /\ phase = "into_iter"
  /\ LET Returned(r) ==
           IF r.err # "ok" THEN Abort(r.err)
           ELSE /\ it' = r.it
                /\ op' = "next"
                /\ ret' = r.item
                /\ owned' = IF r.item = None THEN owned
                            ELSE [owned EXCEPT ![r.item[1][3]] = @ + 1]
                /\ UNCHANGED <<trienodes, results, len, should_drop, phase, err,
                               steps, slw, dropped, thr, calc, coll, unit, bvec>>
     IN Returned(iter_next(Tbl, it))

\* the caller drops the IntoIter
DropIntoIter ==
  /\ err = "ok" /\ phase = "into_iter"
  /\ LET Dropped(d) ==
           IF d.err # "ok" THEN Abort(d.err)
           ELSE /\ dropped' = d.dropped
                /\ it' = d.it
                /\ phase' = "dropped"
                /\ op' = "drop"
                /\ ret' = None
                /\ UNCHANGED <<trienodes, results, len, should_drop, err, steps,
                               slw, owned, thr, calc, coll, unit, bvec>>
     IN Dropped(drop_IntoIter(Tbl, it, dropped))

(***************************************************************************)
(* Lookups by threads that share the table (Arc<IpLookupTable>): a thread  *)
(* takes one step per node or item it reads.                               *)
(***************************************************************************)
\* one iteration of 'for nibble in nibbles' of longest_match by a thread in
\* state st; the thread is done once the loop is left
longest_match_step(T, st) ==
  LET Result(s1) ==
        IF s1.best_match = None THEN [s1 EXCEPT !.pc = "done", !.ret = None]
        ELSE IF A_get_pre(T.results, s1.best_match[1][1], s1.best_match[1][2])
          THEN [s1 EXCEPT !.pc = "done",
                          !.ret = Some(<<s1.bits_matched,
                                         Unwrap(A_get(T.results, s1.best_match[1][1],
                                                      s1.best_match[1][2]))>>)]
        ELSE [s1 EXCEPT !.pc = "failed"]
      Chase(cur_node, me, s1) ==
        IF ~is_endnode(cur_node) /\ me.kind = "Chase" /\ s1.i + 1 < NumNibbles
          THEN [s1 EXCEPT !.i = @ + 1, !.cur_hdl = me.hdl, !.cur_index = me.index,
                          !.bits = @ + 4]
          ELSE Result(s1)
      Matched(cur_node, match_mask, mi) ==
        Chase(cur_node, match_external(cur_node, match_mask),
              IF mi.kind = "Match"
                THEN [st EXCEPT !.bits_matched = st.bits + BIT_MATCH[mi.bit + 1],
                                !.best_match = Some(<<mi.hdl, mi.index>>)]
                ELSE st)
      Visit(cur_node, match_mask) ==
        Matched(cur_node, match_mask, match_internal(cur_node, match_mask))
  IN IF ~A_get_pre(T.trienodes, st.cur_hdl, st.cur_index)
       THEN [st EXCEPT !.pc = "failed"]
       ELSE Visit(NodeAt(T.trienodes, st.cur_hdl, st.cur_index),
                  MATCH_MASKS[nibbles(st.ip)[st.i + 1] + 1])

\* one iteration of 'for nibble in nibbles' of exact_match
exact_match_step(T, st) ==
  LET Final(mi) ==
        IF mi.kind # "Match" THEN [st EXCEPT !.pc = "done", !.ret = None]
        ELSE IF A_get_pre(T.results, mi.hdl, mi.index)
          THEN [st EXCEPT !.pc = "done",
                          !.ret = Some(Unwrap(A_get(T.results, mi.hdl, mi.index)))]
        ELSE [st EXCEPT !.pc = "failed"]
      Chase(me) ==
        IF me.kind = "Chase" /\ st.i + 1 < NumNibbles
          THEN [st EXCEPT !.i = @ + 1, !.cur_hdl = me.hdl, !.cur_index = me.index,
                          !.bits = @ - 4]
          ELSE [st EXCEPT !.pc = "done", !.ret = None]
      Visit(cur_node, bitmap) ==
        IF st.bits < 4 \/ (is_endnode(cur_node) /\ st.bits = 4)
          THEN Final(match_internal(cur_node, bitmap))
          ELSE Chase(match_external(cur_node, bitmap))
  IN IF ~A_get_pre(T.trienodes, st.cur_hdl, st.cur_index)
          \/ ~gen_bitmap_pre(nibbles(st.ip)[st.i + 1], Min2(st.bits, 4))
       THEN [st EXCEPT !.pc = "failed"]
       ELSE Visit(NodeAt(T.trienodes, st.cur_hdl, st.cur_index),
                  gen_bitmap(nibbles(st.ip)[st.i + 1], Min2(st.bits, 4))
                    \cap END_BIT_MASK)

\* one call of Iter::next in 'for item in tbl.iter()'; ret collects the items
iter_step(T, st) ==
  LET Got(r) ==
        IF r.err # "ok" THEN [st EXCEPT !.pc = "failed"]
        ELSE IF r.item = None THEN [st EXCEPT !.pc = "done", !.it = r.it]
        ELSE [st EXCEPT !.it = r.it, !.ret = Append(@, r.item[1])]
  IN Got(iter_next(T, st.it))

\* thread t calls longest_match(ip) on the shared table
StartLongestMatch(t, ip) ==
  /\ err = "ok" /\ phase = "table"
  /\ thr[t].pc = "idle"
  /\ thr' = [thr EXCEPT ![t] = [Idle EXCEPT !.pc = "run", !.call = "longest_match",
                                            !.ip = ip]]
  /\ UNCHANGED <<tablevars, calc, coll, unit, bvec>>

\* thread t calls exact_match(ip, masklen) on the shared table
StartExactMatch(t, ip, masklen) ==
  /\ err = "ok" /\ phase = "table"
  /\ thr[t].pc = "idle"
  /\ thr' = [thr EXCEPT ![t] = [Idle EXCEPT !.pc = "run", !.call = "exact_match",
                                            !.ip = ip, !.masklen = masklen,
                                            !.bits = masklen]]
  /\ UNCHANGED <<tablevars, calc, coll, unit, bvec>>

\* thread t calls iter() on the shared table
StartIter(t) ==
  /\ err = "ok" /\ phase = "table"
  /\ thr[t].pc = "idle"
  /\ thr' = [thr EXCEPT ![t] = [Idle EXCEPT !.pc = "run", !.call = "iter",
                                            !.it = iter(Tbl), !.ret = <<>>]]
  /\ UNCHANGED <<tablevars, calc, coll, unit, bvec>>

\* thread t reads the next node or item of its lookup
ThreadStep(t) ==
  /\ err = "ok"
  /\ thr[t].pc = "run"
  /\ LET Stepped(st) ==
           IF st.pc = "failed"
             THEN /\ err' = "shared lookup"
                  /\ UNCHANGED <<trienodes, results, len, should_drop, phase, it,
                                 op, ret, steps, slw, owned, dropped, thr, calc, coll, unit, bvec>>
             ELSE /\ thr' = [thr EXCEPT ![t] = st]
                  /\ UNCHANGED <<tablevars, calc, coll, unit, bvec>>
     IN Stepped(CASE thr[t].call = "longest_match" -> longest_match_step(Tbl, thr[t])
                  [] thr[t].call = "exact_match" -> exact_match_step(Tbl, thr[t])
                  [] OTHER -> iter_step(Tbl, thr[t]))

\* thread t's call returns to its caller
ThreadReturn(t) ==
  /\ err = "ok"
  /\ thr[t].pc = "done"
  /\ thr' = [thr EXCEPT ![t] = Idle]
  /\ UNCHANGED <<tablevars, calc, coll, unit, bvec>>

Lookups ==
  \/ \E a \in Addrs : LongestMatch(a)
  \/ \E k \in Keys : ExactMatch(k[1], k[2])
  \/ Iterate

\* inserts and lookups only
NextInserts ==
  \/ \E k \in Keys : Insert(k[1], k[2])
  \/ Lookups

SpecInserts == Init /\ [][NextInserts]_vars

\* inserts, removes and lookups
Next ==
  \/ \E k \in Keys : Insert(k[1], k[2])
  \/ \E k \in Keys : Remove(k[1], k[2])
  \/ Lookups

Spec == Init /\ [][Next]_vars

\* the table inserted into, removed from, written to through iter_mut, and
\* looked up
NextMut ==
  \/ \E k \in Keys : Insert(k[1], k[2])
  \/ \E k \in Keys : Remove(k[1], k[2])
  \/ \E j \in 1 .. MaxOps : IterMut(j)
  \/ Lookups

SpecMut == Init /\ [][NextMut]_vars

\* the prefixes inserted into a table that is then shared, and the
\* addresses its threads look up
SharedKeys ==
  {<<mask(SeedAddr(5, 3), m), m>> : m \in {4, 8, Width}} \cup {<<SeedAddr(9, 6), Width>>}

SharedAddrs == {SeedAddr(5, 3), SeedAddr(9, 6)}

\* a table filled by its owner and, between the inserts, read by threads
NextShared ==
  \/ \E k \in SharedKeys : Insert(k[1], k[2])
  \/ \E t \in Threads : \E a \in SharedAddrs : StartLongestMatch(t, a)
  \/ \E t \in Threads : \E k \in SharedKeys : StartExactMatch(t, k[1], k[2])
  \/ \E t \in Threads : StartIter(t)
  \/ \E t \in Threads : ThreadStep(t)
  \/ \E t \in Threads : ThreadReturn(t)

SpecShared == Init /\ [][NextShared]_vars

(***************************************************************************)
(* The Address functions applied to an address a and a length n.           *)
(***************************************************************************)
\* the addresses whose nibbles are among 0, 1, 6, 10 and 15
AddrInputs ==
  {from_nibbles(nibs) : nibs \in [1 .. NumNibbles -> {0, 1, 6, 10, 15}]}

InitAddr ==
  /\ InitTable
  /\ calc \in {[NoCalc EXCEPT !.a = a, !.n = n] : a \in AddrInputs, n \in 0 .. Width}
  /\ coll = NoColl
  /\ unit = NoUnit
  /\ bvec = NoBvec

\* a.nibbles()
CalcNibbles ==
  /\ calc.fn = "none"
  /\ calc' = [calc EXCEPT !.fn = "nibbles", !.nibs = nibbles(calc.a)]
  /\ UNCHANGED <<tablevars, thr, coll, unit, bvec>>

\* the first k of the nibbles, or the nibbles and one more, x
CalcSlice(k, x) ==
  /\ calc.fn = "nibbles"
  /\ calc' = [calc EXCEPT !.fn = "slice",
                          !.nibs = IF k <= NumNibbles THEN SubSeq(@, 1, k)
                                   ELSE Append(@, x)]
  /\ UNCHANGED <<tablevars, thr, coll, unit, bvec>>

\* Address::from_nibbles of the nibbles or of the slice
CalcFromNibbles ==
  /\ calc.fn \in {"nibbles", "slice"}
  /\ calc' = [calc EXCEPT !.fn = "from_nibbles", !.out = from_nibbles(calc.nibs)]
  /\ UNCHANGED <<tablevars, thr, coll, unit, bvec>>

\* a.mask(n) of an Ipv4Addr
CalcMaskIpv4 ==
  /\ calc.fn = "none"
  /\ LET Masked(r) == calc' = [calc EXCEPT !.fn = "mask", !.out = r.out, !.err = r.err]
     IN Masked(mask_ipv4(calc.a, calc.n))
  /\ UNCHANGED <<tablevars, thr, coll, unit, bvec>>

\* a.mask(n) of an Ipv6Addr
CalcMaskIpv6 ==
  /\ calc.fn = "none"
  /\ LET Masked(r) == calc' = [calc EXCEPT !.fn = "mask", !.out = r.out, !.err = r.err]
     IN Masked(mask_ipv6(calc.a, calc.n))
  /\ UNCHANGED <<tablevars, thr, coll, unit, bvec>>

\* a.mask(n).mask(n)
CalcMaskAgain ==
  /\ calc.fn = "mask"
  /\ calc.err = "ok"
  /\ LET Masked(r) ==
           calc' = [calc EXCEPT !.fn = "mask_again", !.prev = calc.out,
                                !.out = r.out, !.err = r.err]
     IN Masked(mask_ipv4(calc.out, calc.n))
  /\ UNCHANGED <<tablevars, thr, coll, unit, bvec>>

NextAddr ==
  \/ CalcNibbles
  \/ \E k \in 0 .. NumNibbles + 1 : \E x \in {0, 15} : CalcSlice(k, x)
  \/ CalcFromNibbles
  \/ CalcMaskIpv4
  \/ CalcMaskIpv6
  \/ CalcMaskAgain

SpecAddr == InitAddr /\ [][NextAddr]_vars

\* the table's whole life: filled, then dropped or turned into an IntoIter
NextOwn ==
  \/ \E k \in Keys : Insert(k[1], k[2])
  \/ \E k \in Keys : Remove(k[1], k[2])
  \/ DropTable
  \/ IntoIter
  \/ IntoIterNext
  \/ DropIntoIter

SpecOwn == Init /\ [][NextOwn]_vars

(***************************************************************************)
(* One collection of an Allocator, next to the collections of other        *)
(* owners.  coll.stored is the sequence the collection stands for.         *)
(***************************************************************************)
\* the length up to which a collection grows
MaxLen == 32

\* how many calls of one run take an index other than 0
MaxTurns == 1

\* the lengths of the collections of the other owners: one per bucket
Neighbours == <<1, 2, 4, 6, 8, 12, 16, 24, 32>>

\* the value the other owner k stored at index j
NeighbourValue(k, j) == 100 * k + j

\* hdl filled with the values of owner k, from index j on
RECURSIVE fill(_, _, _, _)
fill(a, hdl, k, j) ==
  IF j >= hdl.len THEN a
  ELSE fill(A_set(a, hdl, j, NeighbourValue(k, j)), hdl, k, j + 1)

\* the other owners allocate and fill their collections, from owner k on
RECURSIVE crowd(_, _)
crowd(a, k) ==
  IF k > Len(Neighbours) THEN a
  ELSE LET Filled(al) == crowd(fill(al.a, al.hdl, k, 0), k + 1)
       IN Filled(A_alloc(a, Neighbours[k]))

\* the handle of the collection of owner k: the first slot of its bucket,
\* after the slot of the shorter owner that shares the bucket
NeighbourHandle(k) ==
  generate(Neighbours[k],
           IF k > 1 /\ choose_bucket(Neighbours[k - 1]) = choose_bucket(Neighbours[k])
             THEN SPACINGS[choose_bucket(Neighbours[k]) + 1] ELSE 0)

\* the least value that the collection does not hold
Fresh(stored) ==
  CHOOSE v \in 1 .. Len(stored) + 1 :
    /\ \A j \in 1 .. Len(stored) : stored[j] # v
    /\ \A w \in 1 .. v - 1 : \E j \in 1 .. Len(stored) : stored[j] = w

InitColl ==
  /\ InitTable
  /\ calc = NoCalc
  /\ unit = NoUnit
  /\ bvec = NoBvec
  /\ coll \in {NoColl, [NoColl EXCEPT !.a = crowd(NewAllocator, 1),
                                      !.crowded = TRUE]}

\* alloc.alloc(0)
CollAlloc ==
  /\ coll.op = "none"
  /\ LET Got(al) ==
           coll' = [coll EXCEPT !.a = al.a, !.hdl = al.hdl, !.prev = coll.hdl,
                                !.op = "alloc"]
     IN Got(A_alloc(coll.a, 0))
  /\ UNCHANGED <<tablevars, thr, calc, unit, bvec>>

\* alloc.insert(&mut hdl, index, value)
CollInsert(index) ==
  /\ coll.op # "none"
  /\ coll.a.err = "ok"
  /\ coll.hdl.len < MaxLen
  /\ index <= coll.hdl.len
  /\ index # 0 => coll.turns < MaxTurns
  /\ LET Got(al) ==
           coll' = [coll EXCEPT !.a = al.a, !.hdl = al.hdl, !.prev = coll.hdl,
                                !.stored = SubSeq(@, 1, index)
                                           \o <<Fresh(coll.stored)>>
                                           \o SubSeq(@, index + 1, Len(@)),
                                !.before = coll.stored,
                                !.op = "insert", !.index = index,
                                !.ret = NoCell,
                                !.turns = IF index # 0 THEN @ + 1 ELSE @]
     IN Got(A_insert(coll.a, coll.hdl, index, Fresh(coll.stored)))
  /\ UNCHANGED <<tablevars, thr, calc, unit, bvec>>

\* alloc.remove(&mut hdl, index)
CollRemove(index) ==
  /\ coll.op # "none"
  /\ coll.a.err = "ok"
  /\ index < coll.hdl.len
  /\ index # 0 => coll.turns < MaxTurns
  /\ LET Got(al) ==
           coll' = [coll EXCEPT !.a = al.a, !.hdl = al.hdl, !.prev = coll.hdl,
                                !.stored = SubSeq(@, 1, index)
                                           \o SubSeq(@, index + 2, Len(@)),
                                !.before = coll.stored,
                                !.op = "remove", !.index = index,
                                !.ret = al.ret,
                                !.turns = IF index # 0 THEN @ + 1 ELSE @]
     IN Got(A_remove(coll.a, coll.hdl, index))
  /\ UNCHANGED <<tablevars, thr, calc, unit, bvec>>

\* the indices of a call: the front, the middle and the back
Indices(n) == {0, n \div 2, n} \cap (0 .. n)

NextColl ==
  \/ CollAlloc
  \/ \E index \in Indices(coll.hdl.len) : CollInsert(index)
  \/ \E index \in Indices(coll.hdl.len - 1) : CollRemove(index)

SpecColl == InitColl /\ [][NextColl]_vars

(***************************************************************************)
(* The functions of a node and of the allocator applied to a node, a match *)
(* mask and a length.                                                      *)
(***************************************************************************)
\* bitmaps: the subsets of each match mask, with and without the endnode
\* bit, and the bitmaps with every other bit set
UnitBitmaps ==
  UNION {{s \cup f \cup n : s \in SUBSET MATCH_MASKS[k + 1]} :
           k \in 0 .. 15, f \in {{}, END_BIT}, n \in {{}, END_BIT_MASK}}

\* a node with the bitmap b, its values in a slot and its children, if it
\* has any, in another
UnitNode(b) ==
  [bitmap |-> b, result_ptr |-> 3,
   child_ptr |-> IF b \cap END_BIT = {} /\ b \cap EXT_MASK # {} THEN 5 ELSE 0]

\* the match masks of the nibbles, the empty mask and the mask of every bit
UnitMasks == {MATCH_MASKS[k + 1] : k \in 0 .. 15} \cup {{}, 0 .. 31}

InitUnit ==
  /\ InitTable
  /\ calc = NoCalc
  /\ coll = NoColl
  /\ bvec = NoBvec
  /\ unit \in {[NoUnit EXCEPT !.len = l] : l \in 0 .. MaxLen}
            \cup {[NoUnit EXCEPT !.node = UnitNode(b), !.mask = m] :
                      b \in UnitBitmaps, m \in {{}, 0 .. 31}}
            \cup {[NoUnit EXCEPT !.node = UnitNode(b), !.nibble = k,
                                 !.mask = MATCH_MASKS[k + 1]] :
                      b \in UnitBitmaps, k \in 0 .. 15}
            \cup {[NoUnit EXCEPT !.nibble = k, !.masklen = m] :
                      k \in 0 .. 15, m \in 0 .. 4}

\* choose_bucket(len), and choose_bucket of the next length
UnitChooseBucket ==
  /\ unit.fn = "none"
  /\ unit' = [unit EXCEPT !.fn = "choose_bucket",
                          !.out = [bucket |-> choose_bucket(unit.len),
                                   next   |-> choose_bucket(
                                                IF unit.len < MaxLen
                                                  THEN unit.len + 1
                                                  ELSE unit.len)]]
  /\ UNCHANGED <<tablevars, thr, calc, coll, bvec>>

\* node.result_handle() and node.child_handle()
UnitHandles ==
  /\ unit.fn = "none"
  /\ unit' = [unit EXCEPT !.fn = "handles",
                          !.out = [results  |-> result_handle(unit.node),
                                   children |-> child_handle(unit.node)]]
  /\ UNCHANGED <<tablevars, thr, calc, coll, bvec>>

\* node.match_internal(mask)
UnitMatchInternal ==
  /\ unit.fn = "none"
  /\ unit' = [unit EXCEPT !.fn = "match_internal",
                          !.out = match_internal(unit.node, unit.mask)]
  /\ UNCHANGED <<tablevars, thr, calc, coll, bvec>>

\* MATCH_MASKS[nibble], and gen_bitmap of the prefix of length masklen of
\* the nibble
UnitGenBitmap ==
  /\ unit.fn = "none"
  /\ unit' = [unit EXCEPT !.fn = "gen_bitmap",
                          !.out = [mask   |-> MATCH_MASKS[unit.nibble + 1],
                                   bitmap |-> gen_bitmap(
                                                NibblePrefix(unit.nibble, unit.masklen),
                                                unit.masklen)]]
  /\ UNCHANGED <<tablevars, thr, calc, coll, bvec>>

\* node.match_segment(nibble)
UnitMatchSegment ==
  /\ unit.fn = "none"
  /\ unit' = [unit EXCEPT !.fn = "match_segment",
                          !.out = match_segment(unit.node, unit.nibble)]
  /\ UNCHANGED <<tablevars, thr, calc, coll, bvec>>

NextUnit ==
  \/ UnitChooseBucket
  \/ UnitHandles
  \/ UnitMatchInternal
  \/ UnitGenBitmap
  \/ UnitMatchSegment

SpecUnit == InitUnit /\ [][NextUnit]_vars

(***************************************************************************)
(* allocator.rs: the calls of BucketVec on two BucketVecs, as the tests    *)
(* bucketvec_move_to and bucketvec_insert_slot_entry make them.            *)
(***************************************************************************)
MaxCalls == 3

Spacings == {2, 4}

\* a BucketVec after n calls of alloc_slot
RECURSIVE Slotted(_, _)
Slotted(spacing, n) ==
  IF n = 0 THEN NewBucketVec(spacing) ELSE alloc_slot(Slotted(spacing, n - 1)).b

\* b after the values base + 1 .. base + k are inserted at the front of its
\* slot 0
RECURSIVE Stocked(_, _, _)
Stocked(b, k, base) ==
  IF k = 0 THEN b ELSE insert_slot_entry(Stocked(b, k - 1, base), 0, 0, base + k)

\* the BucketVecs the calls start from: up to two slots, the first one empty,
\* with one cell to spare or full
StartVecs(base) ==
  {NewBucketVec(s) : s \in Spacings}
    \cup UNION {{Stocked(Slotted(s, n), k, base) : n \in 1 .. 2, k \in {0, s - 1, s}} :
                  s \in Spacings}

SlotsOf(b) == {s \in 0 .. b.len - 1 : s % b.spacing = 0}

InitBvec ==
  /\ InitTable
  /\ calc = NoCalc
  /\ coll = NoColl
  /\ unit = NoUnit
  /\ bvec \in {[NoBvec EXCEPT !.b = <<x, y>>, !.held = <<SlotsOf(x), SlotsOf(y)>>,
                               !.before = <<x, y>>,
                               !.heldBefore = <<SlotsOf(x), SlotsOf(y)>>] :
                  x \in StartVecs(100), y \in StartVecs(200)}

\* what every call records
Called(fn, side, slot, index, value) ==
  [bvec EXCEPT !.fn = fn, !.side = side, !.slot = slot, !.index = index,
               !.value = value, !.before = bvec.b, !.heldBefore = bvec.held,
               !.turns = @ + 1]

\* bvec.alloc_slot()
BvAllocSlot(side) ==
  /\ bvec.turns < MaxCalls
  /\ LET al == alloc_slot(bvec.b[side])
     IN bvec' = [Called("alloc_slot", side, 0, 0, 0) EXCEPT
                   !.b[side] = al.b, !.held[side] = @ \cup {al.slot},
                   !.ret = <<al.slot>>]
  /\ UNCHANGED <<tablevars, thr, calc, coll, unit>>

\* bvec.free_slot(slot), of a slot handed out and not freed since
BvFreeSlot(side, slot) ==
  /\ bvec.turns < MaxCalls
  /\ slot \in bvec.held[side]
  /\ bvec' = [Called("free_slot", side, slot, 0, 0) EXCEPT
                !.b[side] = free_slot(@, slot), !.held[side] = @ \ {slot},
                !.ret = NoCell]
  /\ UNCHANGED <<tablevars, thr, calc, coll, unit>>

\* bvec.insert_slot_entry(slot, index, value)
BvInsertSlotEntry(side, slot, index) ==
  /\ bvec.turns < MaxCalls
  /\ slot \in bvec.held[side]
  /\ insert_slot_entry_pre(bvec.b[side], slot, index)
  /\ bvec' = [Called("insert_slot_entry", side, slot, index, bvec.turns + 1) EXCEPT
                !.b[side] = insert_slot_entry(@, slot, index, bvec.turns + 1),
                !.ret = NoCell]
  /\ UNCHANGED <<tablevars, thr, calc, coll, unit>>

\* bvec.remove_slot_entry(slot, index)
BvRemoveSlotEntry(side, slot, index) ==
  /\ bvec.turns < MaxCalls
  /\ slot \in bvec.held[side]
  /\ remove_slot_entry_pre(bvec.b[side], slot, index)
  /\ LET rm == remove_slot_entry(bvec.b[side], slot, index)
     IN bvec' = [Called("remove_slot_entry", side, slot, index, 0) EXCEPT
                   !.b[side] = rm.b, !.ret = rm.ret]
  /\ UNCHANGED <<tablevars, thr, calc, coll, unit>>

\* bvec.move_slot(slot, &mut other)
BvMoveSlot(side, slot) ==
  /\ bvec.turns < MaxCalls
  /\ slot \in bvec.held[side]
  /\ move_slot_pre(bvec.b[side], slot, bvec.b[3 - side])
  /\ LET mv == move_slot(bvec.b[side], slot, bvec.b[3 - side])
     IN bvec' = [Called("move_slot", side, slot, 0, 0) EXCEPT
                   !.b[side] = mv.src, !.b[3 - side] = mv.dst,
                   !.held[side] = @ \ {slot},
                   !.held[3 - side] = @ \cup {mv.slot},
                   !.ret = <<mv.slot>>]
  /\ UNCHANGED <<tablevars, thr, calc, coll, unit>>

MaxSlot == 4 * (MaxCalls + 2)

NextBvec ==
  \E side \in 1 .. 2 :
    \/ BvAllocSlot(side)
    \/ \E slot \in 0 .. MaxSlot :
         \/ BvFreeSlot(side, slot)
         \/ BvMoveSlot(side, slot)
         \/ \E index \in 0 .. 3 :
              \/ BvInsertSlotEntry(side, slot, index)
              \/ BvRemoveSlotEntry(side, slot, index)

SpecBvec == InitBvec /\ [][NextBvec]_vars

(***************************************************************************)
(* What the lookups of a table show.                                       *)
(***************************************************************************)
\* the items iter() yields
Items(T) == collect(T, iter(T))

\* the items as nodes of the naive list, the nibbles read back as the
\* address they spell
Yielded(T) ==
  LET Of(items) ==
        {[ip |-> from_nibbles(items[j][1]), masklen |-> items[j][2],
          value |-> items[j][3]] : j \in 1 .. Len(items)}
  IN Of(Items(T))

\* what the naive list holds for a prefix, as exact_match returns it
SlowExact(nodes, ip, masklen) ==
  IF SlowHas(nodes, ip, masklen) THEN Some(SlowGet(nodes, ip, masklen).value)
  ELSE None

\* the two tables answer every lookup alike
SameLookups(T1, T2) ==
  \/ T1 = T2
  \/ /\ \A a \in Addrs : longest_match(T1, nibbles(a)) = longest_match(T2, nibbles(a))
     /\ \A k \in Keys :
          exact_match(T1, nibbles(k[1]), k[2]) = exact_match(T2, nibbles(k[1]), k[2])
     /\ Items(T1) = Items(T2)

(***************************************************************************)
(* The claims.                                                             *)
(***************************************************************************)
\* C1: after any sequence of inserts of masked prefixes with masklen in
\* 0 ..= width, longest_match(a) returns for every address a the length and
\* the value of the longest inserted prefix that covers a, and None when no
\* inserted prefix covers a, as the linear scan of the naive list does.
C1_LongestMatchAfterInserts ==
  \A a \in Addrs :
    longest_match(Tbl, nibbles(a)) = [ret |-> SlowLongestMatch(slw, a), err |-> "ok"]

\* C2: after any sequence of inserts, exact_match(p, m) returns the value
\* inserted last for exactly (p, m), and None for every (p, m) not inserted.
C2_ExactMatchAfterInserts ==
  \A k \in Keys :
    exact_match(Tbl, nibbles(k[1]), k[2]) =
      [ret |-> SlowExact(slw, k[1], k[2]), err |-> "ok"]

\* C3: after any interleaving of inserts and removes, longest_match(a)
\* equals for every address a the longest match over the prefixes stored:
\* after a remove it falls back to the next stored prefix covering a.
C3_LongestMatchStored ==
  \A a \in Addrs : longest_match(Tbl, nibbles(a)).ret = SlowLongestMatch(slw, a)

\* C4: in every reachable state insert(p, m, v) returns None and adds one to
\* len when (p, m) is not stored, and returns the old value and leaves len
\* when it is; afterwards the table holds v for (p, m) and every other prefix
\* as before.
C4_InsertContract ==
  (err = "ok") =>
    \A k \in Keys :
      LET Returned(r) ==
            /\ ~Failed(r.T)
            /\ r.ret = SlowExact(slw, k[1], k[2])
            /\ r.T.len = IF SlowHas(slw, k[1], k[2]) THEN len ELSE len + 1
            /\ Yielded(r.T) = SlowInsert(slw, k[1], k[2], steps + 1)
      IN Returned(insert(Tbl, nibbles(k[1]), k[2], steps + 1))

\* a second insert of a stored prefix has returned the old value
C4_Witness ==
  /\ err = "ok" /\ op = "insert" /\ ret # None
  /\ len = 2 /\ steps = 3

\* C5: in every reachable state, for every stored prefix (p, m), remove(p, m)
\* returns the stored value; afterwards exact_match(p, m) is None, len is
\* one less and every other stored prefix has its value.
C5_RemoveStored ==
  (err = "ok") =>
    \A n \in slw :
      LET Returned(r) ==
            /\ ~Failed(r.T)
            /\ r.ret = Some(n.value)
            /\ exact_match(r.T, nibbles(n.ip), n.masklen).ret = None
            /\ r.T.len = len - 1
            /\ Yielded(r.T) = slw \ {n}
      IN Returned(remove(Tbl, nibbles(n.ip), n.masklen))

\* C6: in every reachable state remove(p, m) of a prefix that is not stored
\* returns None without aborting and leaves len and the result of every
\* exact_match, longest_match and iter as they were.
C6_RemoveAbsent ==
  (err = "ok") =>
    \A k \in Keys :
      ~SlowHas(slw, k[1], k[2]) =>
        LET Returned(r) ==
              /\ ~Failed(r.T)
              /\ r.ret = None
              /\ r.T.len = len
              /\ SameLookups(r.T, Tbl)
        IN Returned(remove(Tbl, nibbles(k[1]), k[2]))

\* a remove of a prefix not stored has returned None, other prefixes stored
C6_Witness ==
  /\ err = "ok" /\ op = "remove" /\ ret = None
  /\ len = 2

\* C7: len() is the number of distinct prefixes stored, never below 0, and
\* 0 for a new table and once every stored prefix is removed.
C7_LenCountsStored ==
  /\ len = Cardinality({<<n.ip, n.masklen>> : n \in slw})
  /\ len >= 0
  /\ (slw = {} => len = 0)

\* the last prefix stored has been removed
C7_Witness ==
  /\ err = "ok" /\ op = "remove" /\ ret # None
  /\ len = 0 /\ steps = 2

\* C8: iter() yields every stored prefix once, with the masklen, the masked
\* address and the value it was inserted with, and nothing else; it yields
\* len() items.
C8_IterYieldsStored ==
  /\ Len(Items(Tbl)) = len
  /\ Cardinality(Yielded(Tbl)) = len
  /\ Yielded(Tbl) = slw

\* a prefix in the root, one in a pushed-down child and one in an endnode
\* below it are stored
C8_Witness ==
  /\ err = "ok" /\ len = 3
  /\ \E n \in slw : n.masklen < 4
  /\ \E n \in slw : n.masklen = Width - 4
  /\ \E n \in slw : n.masklen = Width - 1
  /\ ~is_endnode(NodeAt(trienodes, root_handle, 0))

\* C9: every value handed to the table is destructed once: a value returned
\* by insert, remove or IntoIter::next is the caller's and the table does
\* not destruct it; once the table or the IntoIter is dropped every value
\* that was stored is the caller's or was destructed once by the drop.
C9_DestructedOnce ==
  (err = "ok") =>
    \A v \in Values :
      /\ owned[v] + dropped[v] <= 1
      /\ (phase = "table" /\ \E n \in slw : n.value = v)
           => owned[v] + dropped[v] = 0
      /\ (phase = "dropped" /\ \E n \in slw : n.value = v)
           => owned[v] + dropped[v] = 1
      /\ (phase = "table") => dropped[v] = 0

\* a partially consumed IntoIter has been dropped
C9_Witness ==
  /\ err = "ok" /\ phase = "dropped" /\ ~should_drop
  /\ \E n \in slw : owned[n.value] = 1
  /\ \E n \in slw : dropped[n.value] = 1

\* C10: every insert, remove, exact_match and longest_match call completes:
\* no assertion fails, no unreachable! is reached and no slice is indexed
\* out of range.
C10_EveryCallCompletes == err = "ok"

\* C11: for every stored (p, m, v) and every address a with mask(a, m) = p
\* that no longer stored prefix covers, the table's longest_match(a) returns
\* (p, m, v): the length is m and the address mask(a, m) is p.
C11_LongestMatchReturnsPrefix ==
  \A n \in slw : \A a \in Addrs :
    (/\ mask(a, n.masklen) = n.ip
     /\ ~\E o \in slw : o.masklen > n.masklen /\ matches(o, a))
    => table_longest_match(Tbl, a).ret = Some(<<n.ip, n.masklen, n.value>>)

\* the items iter() yields, in turn, as the prefixes the table hands out
YieldedSeq(T) ==
  LET Of(items) ==
        [j \in 1 .. Len(items) |->
           [ip |-> from_nibbles(items[j][1]), masklen |-> items[j][2],
            value |-> items[j][3]]]
  IN Of(Items(T))

\* trie order of two prefixes: the nibbles that lead to the node of a prefix
\* are its first masklen / 4 ones; an ancestor's node comes first, then the
\* lower nibble where the ways part, and within one node the shorter prefix
\* and then the lower bits
TrieBefore(x, y) ==
  LET dx == x.masklen \div 4
      dy == y.masklen \div 4
      nx == nibbles(x.ip)
      ny == nibbles(y.ip)
      part == {j \in 1 .. Min2(dx, dy) : nx[j] # ny[j]}
      Slot(n, d, m) == IF d < NumNibbles THEN n[d + 1] \div Pow(2, 4 - (m % 4)) ELSE 0
  IN IF part # {} THEN nx[SetMin(part)] < ny[SetMin(part)]
     ELSE IF dx # dy THEN dx < dy
     ELSE IF x.masklen # y.masklen THEN x.masklen < y.masklen
     ELSE Slot(nx, dx, x.masklen) < Slot(ny, dy, y.masklen)

\* C12: iter() yields in trie order: a prefix before every longer prefix it
\* covers, the lower nibble's subtree before the higher one's, and a node's
\* prefixes of length 0 .. 3 in bitmap order before what lies below; the
\* order is one of the prefixes stored alone, whatever order they were
\* inserted in.
C12_IterInTrieOrder ==
  LET Ordered(s) ==
        \A i \in 1 .. Len(s) : \A j \in 1 .. Len(s) :
          /\ (i < j) => TrieBefore(s[i], s[j])
          /\ (s[i].masklen < s[j].masklen /\ matches(s[i], s[j].ip)) => i < j
  IN Ordered(YieldedSeq(Tbl))

\* a prefix, a longer one it covers and one under another nibble are stored
C12_Witness ==
  /\ err = "ok"
  /\ len = 3
  /\ \E n \in slw : \E o \in slw : n.masklen < o.masklen /\ matches(n, o.ip)
  /\ \E n \in slw : \E o \in slw :
        /\ n.masklen >= 8
        /\ o.masklen >= 8
        /\ nibbles(n.ip)[2] # nibbles(o.ip)[2]

\* C13: in every reachable state iter_mut() visits the (prefix, masklen)
\* sequence of iter(); a value written through the j-th reference is what
\* iter, exact_match and longest_match return for that prefix afterwards, and
\* the nodes, len, the prefixes, their order and the other values are as
\* before.
C13_IterMutWrites ==
  (err = "ok") => \A j \in 1 .. len :
    LET Before(s) ==
          LET p == s[j]
              Written(r) ==
                /\ ~Failed(r.T)
                /\ r.seen = [i \in 1 .. Len(Items(Tbl)) |->
                               <<Items(Tbl)[i][1], Items(Tbl)[i][2]>>]
                /\ YieldedSeq(r.T) = [s EXCEPT ![j].value = steps + 1]
                /\ r.T.len = len
                /\ r.T.trienodes = trienodes
                /\ exact_match(r.T, nibbles(p.ip), p.masklen).ret = Some(steps + 1)
                /\ \A a \in Addrs :
                     IF SlowLongestMatch(slw, a) = Some(<<p.masklen, p.value>>)
                       THEN longest_match(r.T, nibbles(a)).ret
                              = Some(<<p.masklen, steps + 1>>)
                       ELSE longest_match(r.T, nibbles(a)) = longest_match(Tbl, nibbles(a))
          IN Written(iter_mut_write(Tbl, j, steps + 1))
    IN Before(YieldedSeq(Tbl))

\* C14: into_iter() yields by value the items iter() yields on the same
\* table, in the same order, and then None: while an IntoIter is held, what
\* it has yet to yield is the tail of iter()'s sequence, the items before the
\* tail are the ones handed to the caller, the last of them by the last call
\* of next, and None is returned only once the tail is empty.
C14_IntoIterYieldsIterItems ==
  (err = "ok") =>
    /\ (phase = "table") =>
          collect(into_iter(Tbl).inner, into_iter(Tbl).it) = Items(Tbl)
    /\ (phase = "into_iter") =>
          LET Rest(all, rest) ==
                LET k == Len(all) - Len(rest)
                IN /\ k >= 0
                   /\ rest = SubSeq(all, k + 1, Len(all))
                   /\ \A j \in 1 .. Len(all) :
                        owned[all[j][3]] = IF j <= k THEN 1 ELSE 0
                   /\ (op = "into_iter") => k = 0
                   /\ (op = "next" /\ ret # None) => k > 0 /\ ret = Some(all[k])
                   /\ (op = "next" /\ ret = None) => k = Len(all)
          IN Rest(Items(Tbl), collect(Tbl, it))

\* an IntoIter over three prefixes has yielded them all and then None
C14_Witness ==
  /\ err = "ok"
  /\ phase = "into_iter"
  /\ op = "next"
  /\ ret = None
  /\ len = 3
  /\ \A n \in slw : owned[n.value] = 1

\* C15: lookups only read the table, so whatever way the steps of the
\* threads' lookups interleave, a longest_match, exact_match or iter that a
\* thread has finished on the shared table returns what the same call
\* returns when it runs alone on the table.
C15_SharedLookupsAgree ==
  \A t \in Threads :
    (err = "ok" /\ thr[t].pc = "done") =>
      CASE thr[t].call = "longest_match" ->
             thr[t].ret = longest_match(Tbl, nibbles(thr[t].ip)).ret
        [] thr[t].call = "exact_match" ->
             thr[t].ret = exact_match(Tbl, nibbles(thr[t].ip), thr[t].masklen).ret
        [] OTHER -> thr[t].ret = Items(Tbl)

\* two threads have finished a lookup each on a table of three prefixes,
\* one of them an iteration and one a longest_match that found a prefix
C15_Witness ==
  /\ err = "ok"
  /\ len = 3
  /\ thr[1].pc = "done" /\ thr[1].call = "iter" /\ Len(thr[1].ret) = 3
  /\ thr[2].pc = "done" /\ thr[2].call = "longest_match" /\ thr[2].ret # None

\* C16: nibbles(a) is the width / 4 four-bit groups of a, the most
\* significant first, each below 16; from_nibbles gives a back from them,
\* zero-pads a shorter slice and ignores what a longer slice holds past
\* width / 4 nibbles.
C16_NibblesRoundTrip ==
  /\ (calc.fn = "nibbles") =>
        /\ Len(calc.nibs) = NumNibbles
        /\ \A i \in 1 .. NumNibbles :
             /\ calc.nibs[i] \in 0 .. 15
             /\ \A b \in 0 .. 3 :
                  (calc.nibs[i] \div Pow(2, 3 - b)) % 2 = bit_at(calc.a, 4 * (i - 1) + b)
  /\ (calc.fn = "from_nibbles") =>
        /\ (Len(calc.nibs) >= NumNibbles) => calc.out = calc.a
        /\ \A pos \in 0 .. Width - 1 :
             bit_at(calc.out, pos) =
               IF pos < 4 * Len(calc.nibs) THEN bit_at(calc.a, pos) ELSE 0

\* from_nibbles has zero-padded a slice that lacks a nonzero nibble
C16_Witness ==
  /\ calc.fn = "from_nibbles"
  /\ Len(calc.nibs) = NumNibbles - 1
  /\ calc.out # calc.a
  /\ calc.out # 0

\* C17: mask(a, n) keeps the n most significant bits of a and zeroes the
\* bits at the positions from n on, for every n in 0 ..= width: mask(a, 0) is
\* the zero address, mask(a, width) is a, masking twice is masking once, and
\* no shift amount reaches the word size.
C17_MaskKeepsLeadingBits ==
  /\ (calc.fn = "mask") =>
        /\ calc.err = "ok"
        /\ \A pos \in 0 .. Width - 1 :
             bit_at(calc.out, pos) = IF pos < calc.n THEN bit_at(calc.a, pos) ELSE 0
        /\ (calc.n = 0) => calc.out = 0
        /\ (calc.n = Width) => calc.out = calc.a
        /\ calc.out = mask(calc.a, calc.n)
  /\ (calc.fn = "mask_again") =>
        /\ calc.err = "ok"
        /\ calc.out = calc.prev

\* an address was masked twice at a length inside a nibble, which cut it
C17_Witness ==
  /\ calc.fn = "mask_again"
  /\ calc.n % 4 # 0
  /\ calc.out # calc.a
  /\ calc.out # 0

\* the orders in which the prefixes of a set can be inserted
Orders(nodes) ==
  {o \in [1 .. Cardinality(nodes) -> nodes] :
     \A i, j \in 1 .. Cardinality(nodes) : o[i] = o[j] => i = j}

RECURSIVE insert_all(_, _, _)
\* the table after tbl.insert of the entries of order from number i on
insert_all(T, order, i) ==
  IF i > Len(order) THEN T
  ELSE LET Next1(r) == insert_all(r.T, order, i + 1)
       IN Next1(insert(T, nibbles(order[i].ip), order[i].masklen, order[i].value))

\* what the calls of the public interface tell of a table
Observed(T) ==
  [longest |-> [a \in Addrs |-> longest_match(T, nibbles(a))],
   exact |-> [k \in Keys |-> exact_match(T, nibbles(k[1]), k[2])],
   len |-> T.len,
   iter |-> YieldedSeq(T)]

\* C18: insertion order does not matter: the prefixes a table holds after a
\* run of inserts, inserted into a new table in any two orders, give tables
\* on which exact_match, longest_match for every address, len and the
\* sequence of iter() are the same.
C18_InsertionOrderIrrelevant ==
  \A o1, o2 \in Orders(slw) :
    Observed(insert_all(with_capacity, o1, 1)) = Observed(insert_all(with_capacity, o2, 1))

\* the nodes of a table: what the cells of trienodes hold
Nodes(T) ==
  UNION {{T.trienodes.buckets[i].buf[p][1] :
            p \in {q \in 1 .. Len(T.trienodes.buckets[i].buf) :
                     IsInit(T.trienodes.buckets[i].buf[q])}} : i \in 0 .. 8}

\* the values of the result array of node n, in the order of the array
ResultsOf(T, n) ==
  [i \in 1 .. result_count(n) |-> Unwrap(A_get(T.results, result_handle(n), i - 1))]

\* C19: push_down on an endnode with k length-4 prefixes makes it a normal
\* node with k children in ascending nibble order, each new child an endnode
\* whose only internal bit is the * slot and whose one-element result array
\* holds the moved value; the prefixes of length 0 to 3 and their values stay
\* in place in the same order, the low 16 bits of the bitmap are the child
\* bits, the endnode flag is cleared, and result_ptr is 0 when no value of
\* length below 4 remains.
C19_PushDownMakesEndnodeChildren ==
  \A node \in {n \in Nodes(Tbl) : is_endnode(n) /\ n.child_ptr = 0} :
    LET Held(vals, kept, k, pd) ==
          /\ ~Failed(pd.T)
          /\ ~is_endnode(pd.node)
          /\ external(pd.node) = internal(node) \cap (0 .. 15)
          /\ internal(pd.node) = internal(node) \cap (16 .. 31)
          /\ child_count(pd.node) = k
          /\ \A i \in 1 .. k :
               /\ A_get_pre(pd.T.trienodes, child_handle(pd.node), i - 1)
               /\ LET Child(c) ==
                        /\ is_endnode(c)
                        /\ internal(c) = MSB
                        /\ c.child_ptr = 0
                        /\ ResultsOf(pd.T, c) = <<vals[kept + i]>>
                  IN Child(NodeAt(pd.T.trienodes, child_handle(pd.node), i - 1))
          /\ ResultsOf(pd.T, pd.node) = SubSeq(vals, 1, kept)
          /\ (kept = 0 /\ k > 0) => pd.node.result_ptr = 0
    IN Held(ResultsOf(Tbl, node), count_ones(internal(node) \cap (16 .. 31)),
            count_ones(internal(node) \cap (0 .. 15)), push_down(Tbl, node))

\* the depth of the node that holds an item of iter(): the root is at depth
\* 0, and the iterator has one nibble for each node on the way to the item
DepthOf(item) == Len(item[1]) - 1

\* C20: in every state reachable by inserts and removes every stored prefix
\* is held by a node at depth at most N - 1, N being the number of nibbles of
\* an address: a prefix of length m is at depth m / 4 as a slot of length
\* m mod 4 or, m being a positive multiple of 4, at depth m / 4 - 1 as a slot
\* of length 4, and never in a node at depth N.
C20_StoredWithinTheWalk ==
  /\ Len(Items(Tbl)) = len
  /\ \A j \in 1 .. Len(Items(Tbl)) :
       LET Placed(depth, m) ==
             /\ depth <= NumNibbles - 1
             /\ \/ depth = m \div 4
                \/ m > 0 /\ m % 4 = 0 /\ depth = m \div 4 - 1
       IN Placed(DepthOf(Items(Tbl)[j]), Items(Tbl)[j][2])

(***************************************************************************)
(* The Allocator's collections.                                            *)
(***************************************************************************)
\* the elements of the collection hdl of a, read with Allocator::get
Elements(a, hdl) == <<>> \o [j \in 1 .. hdl.len |-> A_get(a, hdl, j - 1)]

\* every element of the collection hdl of a may be read
Readable(a, hdl) == \A j \in 0 .. hdl.len - 1 : A_get_pre(a, hdl, j)

\* the cells that hold the values of the sequence s
Cells(s) == <<>> \o [j \in 1 .. Len(s) |-> <<s[j]>>]

\* the collections of the other owners hold what was stored in them
NeighboursKept ==
  coll.crowded =>
    \A k \in 1 .. Len(Neighbours) :
      /\ Readable(coll.a, NeighbourHandle(k))
      /\ Elements(coll.a, NeighbourHandle(k))
           = <<>> \o [j \in 1 .. Neighbours[k] |-> <<NeighbourValue(k, j - 1)>>]

\* C21: a collection of an Allocator behaves as a sequence: from alloc(0)
\* on, after any insert(hdl, i, v) with i <= len and remove(hdl, i) with
\* i < len that keep len within 0 ..= 32, no assertion has failed, hdl.len
\* is the length of the sequence, get(hdl, j) is its j-th element for every
\* j < len, remove has returned the element that was at i, the collections
\* of other owners are as they were, and a collection only ever pushed and
\* popped at index 0 pops its values in reverse insertion order, across the
\* moves between buckets.
C21_CollectionIsSequence ==
  coll.op # "none" =>
    /\ coll.a.err = "ok"
    /\ coll.hdl.len = Len(coll.stored)
    /\ Readable(coll.a, coll.hdl)
    /\ Elements(coll.a, coll.hdl) = Cells(coll.stored)
    /\ coll.op = "remove" => coll.ret = <<coll.before[coll.index + 1]>>
    /\ coll.op = "remove" /\ coll.turns = 0 => coll.ret = <<coll.hdl.len + 1>>
    /\ NeighboursKept

\* a collection that held 25 values, pushed at index 0, has popped the last
\* of them and moved to the smaller bucket, next to other collections
C21_Witness ==
  /\ coll.op = "remove"
  /\ coll.crowded
  /\ coll.turns = 0
  /\ coll.prev.len = 25
  /\ coll.hdl.len = 24
  /\ choose_bucket(coll.prev.len) # choose_bucket(coll.hdl.len)
  /\ coll.ret = <<25>>

\* the collection hdl of a lies in a slot of the bucket of its length
InItsBucket(a, hdl) == SlotOk(a.buckets[choose_bucket(hdl.len)], hdl.offset)

\* bucket is the smallest bucket whose slots hold n elements
SmallestBucket(bucket, n) ==
  /\ SPACINGS[bucket + 1] >= n
  /\ \A k \in 0 .. bucket - 1 : SPACINGS[k + 1] < n

\* C28: after every Allocator::alloc, insert and remove, hdl.offset is a
\* multiple of the spacing of buckets[choose_bucket(hdl.len)] and a slot
\* below that bucket's len, and that bucket is the smallest one that holds
\* len elements; when the call changed choose_bucket(len), the old slot is
\* the last entry of the old bucket's free list, and when it did not, the
\* offset is the one before the call.
C28_HandleInItsBucket ==
  coll.op # "none" =>
    LET bucket == choose_bucket(coll.hdl.len)
        before == choose_bucket(coll.prev.len)
        freed  == coll.a.buckets[before].freelist
    IN /\ coll.hdl.offset % SPACINGS[bucket + 1] = 0
       /\ coll.hdl.offset < coll.a.buckets[bucket].len
       /\ InItsBucket(coll.a, coll.hdl)
       /\ SmallestBucket(bucket, coll.hdl.len)
       /\ coll.op \in {"insert", "remove"} /\ bucket # before =>
            /\ freed # <<>>
            /\ freed[Len(freed)] = coll.prev.offset
       /\ coll.op \in {"insert", "remove"} /\ bucket = before =>
            coll.hdl.offset = coll.prev.offset

\* an insert has moved a collection to the next bucket, behind the slot of
\* another collection
C28_Witness ==
  /\ coll.op = "insert"
  /\ choose_bucket(coll.hdl.len) # choose_bucket(coll.prev.len)
  /\ coll.hdl.offset # 0
  /\ coll.a.err = "ok"

\* C29: for every len in 0 ..= 32, choose_bucket(len) is the index of the
\* first bucket of spacings 1, 2, 4, 6, 8, 12, 16, 24, 32 whose spacing is
\* >= len (0 for len 0 and len 1), and choose_bucket(len + 1) is the same
\* or the next index, so that it never decreases; a node has at most 31
\* values and 16 children, so the lengths that the calls on the trie pass
\* to it, a collection's length and the length after one more insert, are
\* at most 32.
C29_ChooseBucket ==
  /\ unit.fn = "choose_bucket" =>
       /\ choose_bucket_pre(unit.len)
       /\ SmallestBucket(unit.out.bucket, unit.len)
       /\ unit.len \in {0, 1} => unit.out.bucket = 0
       /\ unit.out.next - unit.out.bucket \in {0, 1}
  /\ unit.fn = "handles" =>
       /\ unit.out.results.len <= 31
       /\ unit.out.children.len <= 16
       /\ choose_bucket_pre(unit.out.results.len + 1)
       /\ choose_bucket_pre(unit.out.children.len + 1)

\* choose_bucket(12) is the bucket of spacing 12, choose_bucket(13) the next
C29_Witness ==
  /\ unit.fn = "choose_bucket"
  /\ unit.len = 12
  /\ unit.out.bucket = 5
  /\ unit.out.next = 6

\* the node n stores the prefix of length m of the nibble
StoresPrefix(n, nibble, m) ==
  (gen_bitmap(NibblePrefix(nibble, m), m) \ END_BIT) \subseteq internal(n)

\* C30: match_internal(mask) returns None when internal() & mask is zero;
\* otherwise it returns the node's result handle with the least significant
\* set bit of the intersection, counted from the most significant bit, and
\* result_index = the number of set internal bits strictly more significant
\* than it (0 for the '*' slot); for mask = MATCH_MASKS[nibble] that bit is
\* the longest prefix of the nibble that the node stores, and None means it
\* stores none; the flag bit 16 of an endnode is never the bit reported.
C30_MatchInternal ==
  unit.fn = "match_internal" =>
    LET hit == internal(unit.node) \cap unit.mask
        out == unit.out
        at  == 31 - out.bit
    IN /\ hit = {} => out.kind = "None"
       /\ hit # {} =>
            /\ out.kind = "Match"
            /\ out.hdl = result_handle(unit.node)
            /\ at \in hit
            /\ \A b \in hit : at <= b
            /\ out.index = Cardinality({b \in internal(unit.node) : b > at})
            /\ out.bit = 0 => out.index = 0
            /\ Bit(at) # END_BIT
       /\ \A nibble \in 0 .. 15 :
            unit.mask = MATCH_MASKS[nibble + 1] =>
              IF out.kind = "Match"
                THEN /\ gen_bitmap(NibblePrefix(nibble, BIT_MATCH[out.bit + 1]),
                                   BIT_MATCH[out.bit + 1]) \ END_BIT = Bit(at)
                     /\ StoresPrefix(unit.node, nibble, BIT_MATCH[out.bit + 1])
                     /\ \A m \in BIT_MATCH[out.bit + 1] + 1 .. 4 :
                          ~StoresPrefix(unit.node, nibble, m)
                ELSE \A m \in 0 .. 4 : ~StoresPrefix(unit.node, nibble, m)

\* an endnode that stores all five prefixes of a nibble: the match is the
\* prefix of length 4, the fifth of its values
C30_Witness ==
  /\ unit.fn = "match_internal"
  /\ is_endnode(unit.node)
  /\ unit.out.kind = "Match"
  /\ unit.out.bit >= 16
  /\ unit.out.index = 4
  /\ result_count(unit.node) = 5

(***************************************************************************)
(* The nodes of the trie and the slots of the two arenas.                  *)
(***************************************************************************)
\* the number of set bits of bitmap that are more significant than bit b
Above(bitmap, b) == Cardinality({c \in bitmap : c > b})

\* the child of n for the nibble, whose external bit is set
ChildFor(T, n, nibble) ==
  NodeAt(T.trienodes, child_handle(n), Above(external(n), 15 - nibble))

\* the node n, found by following the nibbles of path from the root, and
\* the nodes below it, down to fuel levels
RECURSIVE Below(_, _, _, _)
Below(T, n, path, fuel) ==
  {[path |-> path, node |-> n]}
    \cup IF fuel = 0 THEN {}
         ELSE UNION {Below(T, ChildFor(T, n, nibble), Append(path, nibble),
                           fuel - 1) :
                       nibble \in {k \in 0 .. 15 : Bit(15 - k) \subseteq external(n)}}

\* the nodes reachable from the root, each with the path that leads to it
Reach(T) == Below(T, NodeAt(T.trienodes, root_handle, 0), <<>>, NumNibbles + 1)

\* the arena of T called name
Arena(T, name) == IF name = "trienodes" THEN T.trienodes ELSE T.results

\* the live collections: the root's, and each reachable node's children and
\* values, with the arena, the bucket and the slot the handle designates
Live(T) ==
  {[owner |-> <<"root">>, arena |-> "trienodes",
    bucket |-> choose_bucket(root_handle.len), slot |-> root_handle.offset]}
  \cup {[owner |-> <<"children">> \o r.path, arena |-> "trienodes",
         bucket |-> choose_bucket(child_handle(r.node).len),
         slot |-> child_handle(r.node).offset] :
          r \in {x \in Reach(T) : child_count(x.node) > 0}}
  \cup {[owner |-> <<"results">> \o r.path, arena |-> "results",
         bucket |-> choose_bucket(result_handle(r.node).len),
         slot |-> result_handle(r.node).offset] :
          r \in {x \in Reach(T) : result_count(x.node) > 0}}

\* the free list of a bucket
FreeList(T, name, bucket) == Arena(T, name).buckets[bucket].freelist

\* the slot is on the free list
IsFree(T, name, bucket, slot) ==
  \E p \in 1 .. Len(FreeList(T, name, bucket)) : FreeList(T, name, bucket)[p] = slot

\* C22: in every state reachable by the calls on the table, in each bucket
\* of both arenas no slot is referenced by two different live collections
\* (the root, the children of a reachable node, the values of a reachable
\* node), no slot referenced by a live collection is on the bucket's free
\* list, and no slot is twice on a free list.
C22_NoSlotSharedOrFreed ==
  /\ \A x, y \in Live(Tbl) :
       (x.arena = y.arena /\ x.bucket = y.bucket /\ x.slot = y.slot) => x = y
  /\ \A x \in Live(Tbl) : ~IsFree(Tbl, x.arena, x.bucket, x.slot)
  /\ \A name \in {"trienodes", "results"} : \A bucket \in 0 .. 8 :
       \A p, q \in 1 .. Len(FreeList(Tbl, name, bucket)) :
         FreeList(Tbl, name, bucket)[p] = FreeList(Tbl, name, bucket)[q] => p = q

\* after a remove two collections live in one bucket of an arena whose
\* free list holds a slot
C22_Witness ==
  /\ op = "remove"
  /\ \E x, y \in Live(Tbl) :
       /\ x # y
       /\ x.arena = y.arena
       /\ x.bucket = y.bucket
       /\ FreeList(Tbl, x.arena, x.bucket) # <<>>

\* the prefixes that the bitmap of n stores: the pairs of a nibble and a
\* length that gen_bitmap maps to a set internal bit
PrefixesOf(n) ==
  {pm \in (0 .. 15) \X (0 .. 4) :
     /\ pm[1] = NibblePrefix(pm[1], pm[2])
     /\ StoresPrefix(n, pm[1], pm[2])}

\* the internal bit of the prefix pm
BitOf(pm) == SetMin(gen_bitmap(pm[1], pm[2]) \ END_BIT)

\* C23: after every completed insert or remove, for every node reachable
\* from the root the handle (popcount(internal), result_ptr) designates a
\* slot of the bucket that choose_bucket selects for that length whose cells
\* hold the values stored for the node's prefixes, and the handle
\* (popcount(external), child_ptr) a slot of the bucket of its length whose
\* cells hold its children; every stored prefix is found in this way; a
\* node with no values has result_ptr = 0 and a node with no children has
\* child_ptr = 0.
C23_HandlesDesignateSlots ==
  op \in {"insert", "remove"} =>
    /\ \A r \in Reach(Tbl) :
         /\ result_count(r.node) = 0 => r.node.result_ptr = 0
         /\ child_count(r.node) = 0 => r.node.child_ptr = 0
         /\ result_count(r.node) > 0 =>
              /\ InItsBucket(Tbl.results, result_handle(r.node))
              /\ Readable(Tbl.results, result_handle(r.node))
         /\ child_count(r.node) > 0 =>
              /\ InItsBucket(Tbl.trienodes, child_handle(r.node))
              /\ Readable(Tbl.trienodes, child_handle(r.node))
         /\ Cardinality(PrefixesOf(r.node)) = result_count(r.node)
         /\ \A pm \in PrefixesOf(r.node) :
              \E e \in slw :
                /\ e.ip = from_nibbles(Append(r.path, pm[1]))
                /\ e.masklen = 4 * Len(r.path) + pm[2]
                /\ <<e.value>> = A_get(Tbl.results, result_handle(r.node),
                                       Above(internal(r.node), BitOf(pm)))
    /\ Cardinality(UNION {{<<r.path, pm>> : pm \in PrefixesOf(r.node)} :
                            r \in Reach(Tbl)}) = Cardinality(slw)

\* an insert has pushed the root's child down and moved its value to a new
\* node; a node below the root holds two values
C23_Witness ==
  /\ op = "insert"
  /\ \E r \in Reach(Tbl) : Len(r.path) = 2 /\ result_count(r.node) > 0
  /\ \E r \in Reach(Tbl) : Len(r.path) = 1 /\ child_count(r.node) > 0
  /\ \E r \in Reach(Tbl) : result_count(r.node) = 2

\* the slots of a bucket: the multiples of its spacing below its len
Slots(T, name, bucket) ==
  {k * SPACINGS[bucket + 1] :
     k \in 0 .. (Arena(T, name).buckets[bucket].len \div SPACINGS[bucket + 1]) - 1}

\* the live collections that designate the slot
Owners(T, name, bucket, slot) ==
  {x \in Live(T) : x.arena = name /\ x.bucket = bucket /\ x.slot = slot}

\* C24: in every state reachable by inserts and removes every slot below a
\* bucket's len that is not on its free list is the slot of exactly one live
\* collection (the root's, or the values or the children of one reachable
\* node); once every stored prefix has been removed the root is blank
\* (bitmap 0, child_ptr 0, result_ptr 0), every slot of the value arena is
\* free and the root's slot is the only slot of the node arena that is not.
C24_NoSlotLeaks ==
  /\ \A name \in {"trienodes", "results"} : \A bucket \in 0 .. 8 :
       \A slot \in Slots(Tbl, name, bucket) :
         ~IsFree(Tbl, name, bucket, slot) =>
           Cardinality(Owners(Tbl, name, bucket, slot)) = 1
  /\ slw = {} =>
       /\ is_blank(NodeAt(trienodes, root_handle, 0))
       /\ \A bucket \in 0 .. 8 : \A slot \in Slots(Tbl, "results", bucket) :
            IsFree(Tbl, "results", bucket, slot)
       /\ \A bucket \in 0 .. 8 : \A slot \in Slots(Tbl, "trienodes", bucket) :
            IsFree(Tbl, "trienodes", bucket, slot)
              <=> ~(bucket = choose_bucket(root_handle.len)
                    /\ slot = root_handle.offset)

\* the last stored prefix has been removed from a node below the root,
\* whose slots are free again
C24_Witness ==
  /\ op = "remove"
  /\ ret # None
  /\ slw = {}
  /\ steps = MaxOps
  /\ \E bucket \in 0 .. 8 : Len(FreeList(Tbl, "trienodes", bucket)) > 0
  /\ \E bucket \in 0 .. 8 : Len(FreeList(Tbl, "results", bucket)) > 0

\* the table after the step
TblNext ==
  [trienodes |-> trienodes', results |-> results', len |-> len',
   should_drop |-> should_drop', err |-> "ok"]

\* every endnode of the trie has child_ptr 0 and no external bits, and no
\* call has applied set_external or unset_external to an endnode or
\* make_endnode to a node that has children
EndnodesHaveNoChildren ==
  /\ \A r \in Reach(Tbl) :
       is_endnode(r.node) =>
         /\ r.node.child_ptr = 0
         /\ external(r.node) = {}
         /\ child_count(r.node) = 0
  /\ err \notin {"set_external", "unset_external", "make_endnode"}

\* a node that is an endnode before the step and a normal node after it is
\* what push_down makes of it, with the branch that insert adds to it
OnlyPushDownMakesNormal ==
  \A r \in Reach(Tbl) : \A x \in Reach(TblNext) :
    (x.path = r.path /\ is_endnode(r.node) /\ ~is_endnode(x.node)) =>
      /\ op' = "insert"
      /\ internal(x.node) = internal(push_down(Tbl, r.node).node)
      /\ external(push_down(Tbl, r.node).node) \subseteq external(x.node)

\* C25: in every reachable state every node of the trie that is an endnode
\* has child_ptr = 0 and no external bits (external() = 0 and
\* child_count() = 0); set_external and unset_external are never applied to
\* an endnode and make_endnode never to a node that has children; and a
\* step turns an endnode into a normal node only by push_down.
C25_EndnodesAndPushDown ==
  /\ []EndnodesHaveNoChildren
  /\ [][trienodes' # trienodes => OnlyPushDownMakesNormal]_vars

\* an insert has pushed an endnode below the root down: the node is a normal
\* node with two children, both without children of their own
C25_Witness ==
  /\ op = "insert"
  /\ \E r \in Reach(Tbl) :
       /\ Len(r.path) = 1
       /\ ~is_endnode(r.node)
       /\ child_count(r.node) = 2
  /\ \E r \in Reach(Tbl) :
       /\ Len(r.path) = 2
       /\ is_endnode(r.node)
       /\ r.node.child_ptr = 0

\* the indices of the cells of the slot of hdl that hold a value
HeldCells(a, hdl) ==
  {j \in 0 .. SPACINGS[choose_bucket(hdl.len) + 1] - 1 :
     IsInit(CellAt(a.buckets[choose_bucket(hdl.len)], hdl.offset + j))}

\* the slots of values of a node: every bit but the endnode bit in an
\* endnode, the bits above it in a normal node
InternalSlots(n) == IF is_endnode(n) THEN END_BIT_MASK ELSE 17 .. 31

\* the values and children of n lie in the order of the significance of
\* their bits, and the lookups, remove and insert compute their indices so
ByBitSignificance(T, n) ==
  /\ result_count(n) > 0 =>
       HeldCells(T.results, result_handle(n)) = 0 .. result_count(n) - 1
  /\ child_count(n) > 0 =>
       HeldCells(T.trienodes, child_handle(n)) = 0 .. child_count(n) - 1
  /\ \A b \in InternalSlots(n) :
       IF b \in internal(n)
         THEN /\ match_internal(n, Bit(b)).index = Above(internal(n), b)
              /\ index_from(internal(n), Bit(b)) - 1 = Above(internal(n), b)
         ELSE index_from(internal(n), Bit(b)) = Above(internal(n), b)
  /\ \A b \in (IF is_endnode(n) THEN {} ELSE EXT_MASK) :
       IF b \in external(n)
         THEN match_external(n, Bit(b)).index = Above(external(n), b)
         ELSE index_from(external(n), Bit(b) \cup IS_END_NODE)
                = Above(external(n), b)

\* push_down of the endnode n keeps the values of length below 4 in their
\* order and gives the values of length 4, in the order of their bits, to
\* the children, which it appends in that order
PushDownKeepsOrder(T, n) ==
  LET Held(vals, kept, pd) ==
        /\ ByBitSignificance(pd.T, pd.node)
        /\ kept > 0 => ResultsOf(pd.T, pd.node) = SubSeq(vals, 1, kept)
        /\ \A i \in 1 .. child_count(pd.node) :
             ResultsOf(pd.T, NodeAt(pd.T.trienodes, child_handle(pd.node), i - 1))
               = <<vals[kept + i]>>
  IN Held(ResultsOf(T, n), count_ones(internal(n) \cap (16 .. 31)),
          push_down(T, n))

\* C26: in every reachable state each node's collection of values holds
\* exactly popcount(internal()) values and its collection of children
\* exactly popcount(external()) nodes, contiguous from result_ptr and
\* child_ptr in the order of bit significance, most significant first: the
\* value of an internal slot and the child of an external slot are at the
\* index that is the number of set bits strictly more significant than the
\* slot, the value there is the one stored for the slot's prefix, and
\* insert, remove (match_internal, match_external) and push_down compute
\* that index.
C26_OrderedByBitSignificance ==
  \A r \in Reach(Tbl) :
    /\ ByBitSignificance(Tbl, r.node)
    /\ \A pm \in PrefixesOf(r.node) :
         \E e \in slw :
           /\ e.ip = from_nibbles(Append(r.path, pm[1]))
           /\ e.masklen = 4 * Len(r.path) + pm[2]
           /\ ResultsOf(Tbl, r.node)[Above(internal(r.node), BitOf(pm)) + 1]
                = e.value
    /\ \A nibble \in {k \in 0 .. 15 : Bit(15 - k) \subseteq external(r.node)} :
         \E x \in Reach(Tbl) :
           /\ x.path = Append(r.path, nibble)
           /\ x.node = NodeAt(Tbl.trienodes, child_handle(r.node),
                               match_segment(r.node, nibble).index)
    /\ (is_endnode(r.node) /\ r.node.child_ptr = 0) =>
         PushDownKeepsOrder(Tbl, r.node)

\* a node holds two values, the one inserted later before the other, and a
\* normal node has two children
C26_Witness ==
  /\ \E r \in Reach(Tbl) :
       /\ result_count(r.node) = 2
       /\ ResultsOf(Tbl, r.node)[1] > ResultsOf(Tbl, r.node)[2]
  /\ \E r \in Reach(Tbl) : child_count(r.node) = 2

\* the paths of the nodes that remove_child visits from the node n at path
\* on, for the nibbles nibs from number d on and the length masklen left
RECURSIVE Visited(_, _, _, _, _, _)
Visited(T, n, path, nibs, d, masklen) ==
  {path}
    \cup IF d >= Len(nibs) \/ masklen < 4 \/ (is_endnode(n) /\ masklen = 4)
           \/ ~(Bit(15 - nibs[d + 1]) \subseteq external(n))
         THEN {}
         ELSE Visited(T, ChildFor(T, n, nibs[d + 1]),
                      Append(path, nibs[d + 1]), nibs, d + 1, masklen - 4)

\* no node below the root is empty, and a node without children has
\* child_ptr 0
NoEmptyNode(T) ==
  \A r \in Reach(T) :
    /\ r.path # <<>> => ~is_empty(r.node)
    /\ child_count(r.node) = 0 => r.node.child_ptr = 0
    /\ \A nibble \in {k \in 0 .. 15 : Bit(15 - k) \subseteq external(r.node)} :
         ~is_empty(ChildFor(T, r.node, nibble))

\* C27: after every completed remove no node below the root that is
\* reachable from the root is empty (no internal and no external bits): an
\* emptied child is taken out of its parent's children, up the path, the
\* parent's external bit is cleared and its child_ptr is 0 when no child is
\* left; and every node below the root that the remove visited and that
\* ends with no children is an endnode.
C27_RemovePrunesEmptyNodes ==
  /\ op = "remove" => NoEmptyNode(Tbl)
  /\ \A k \in Keys :
       LET Done(rm, seen) ==
             ~Failed(rm.T) =>
               /\ NoEmptyNode(rm.T)
               /\ \A r \in Reach(rm.T) :
                    (r.path # <<>> /\ r.path \in seen /\ child_count(r.node) = 0)
                      => is_endnode(r.node)
       IN Done(remove(Tbl, nibbles(k[1]), k[2]),
               Visited(Tbl, NodeAt(Tbl.trienodes, root_handle, 0), <<>>,
                       nibbles(k[1]), 0, k[2]))

\* a remove has returned the value of a prefix and has left one prefix, in
\* a node below the root; a slot of the node arena has been freed
C27_Witness ==
  /\ op = "remove"
  /\ ret # None
  /\ Cardinality(slw) = 1
  /\ Cardinality(Reach(Tbl)) = 2
  /\ \E bucket \in 0 .. 8 : Len(FreeList(Tbl, "trienodes", bucket)) > 0

\* the slot of the prefix of length m of the nibble: counted from the most
\* significant bit, slot 0 is '*', slots 1 and 2 the prefixes of length 1,
\* 3 to 6 those of length 2, 7 to 14 those of length 3, and 16 to 31 the
\* nibbles
SlotBit(nibble, m) ==
  Bit(31 - (IF m = 4 THEN 16 + nibble
            ELSE Pow(2, m) - 1 + nibble \div Pow(2, 4 - m)))

\* C31: for every nibble n, MATCH_MASKS[n] has exactly five set bits, the
\* slots of '*', of the prefixes of length 1, 2 and 3 of n and of n itself;
\* for every k in 0 ..= 4, gen_bitmap(n with its low 4 - k bits cleared, k)
\* & END_BIT_MASK is the one of those bits that stands for the prefix of
\* length k of n, the bit that BIT_MATCH decodes as length k, and gen_bitmap
\* of length 4, and only it, carries the endnode bit.
C31_MasksAndBitmapsAgree ==
  unit.fn = "gen_bitmap" =>
    LET slot == unit.out.bitmap \ END_BIT
    IN /\ Cardinality(unit.out.mask) = 5
       /\ unit.out.mask = UNION {SlotBit(unit.nibble, k) : k \in 0 .. 4}
       /\ gen_bitmap_pre(NibblePrefix(unit.nibble, unit.masklen), unit.masklen)
       /\ slot = SlotBit(unit.nibble, unit.masklen)
       /\ slot \subseteq unit.out.mask
       /\ \A k \in 0 .. 4 :
            k # unit.masklen => SlotBit(unit.nibble, k) \cap slot = {}
       /\ BIT_MATCH[31 - SetMin(slot) + 1] = unit.masklen
       /\ (END_BIT \subseteq unit.out.bitmap) <=> unit.masklen = 4

\* the slot of the prefix 110 of the nibble 1101
C31_Witness ==
  /\ unit.fn = "gen_bitmap"
  /\ unit.nibble = 13
  /\ unit.masklen = 3
  /\ unit.out.bitmap = Bit(18)
  /\ Bit(18) \subseteq unit.out.mask

\* the lengths of the prefixes of the nibble that the bitmap holds as values:
\* the low 16 bits are values of length 4 on an endnode and children
\* otherwise
HeldLengths(bitmap, nibble) ==
  {m \in 0 .. (IF END_BIT \subseteq bitmap THEN 4 ELSE 3) :
     SlotBit(nibble, m) \subseteq bitmap}

\* C38: match_segment(nibble) returns Chase exactly when the node is not an
\* endnode and has the child bit of that very nibble, with the child handle
\* and the number of children of smaller nibbles; otherwise Match when a
\* prefix of the nibble is held as a value, with the longest such prefix; and
\* otherwise None.  A child bit of another nibble never yields Chase.
C38_MatchSegment ==
  unit.fn = "match_segment" =>
    LET bitmap == unit.node.bitmap
        child  == END_BIT \cap bitmap = {} /\ SlotBit(unit.nibble, 4) \subseteq bitmap
        held   == HeldLengths(bitmap, unit.nibble)
    IN /\ unit.out.kind = "Chase" <=> child
       /\ child =>
            /\ unit.out.hdl = child_handle(unit.node)
            /\ unit.out.index =
                 Cardinality({k \in 0 .. unit.nibble - 1 : SlotBit(k, 4) \subseteq bitmap})
       /\ unit.out.kind = "Match" <=> ~child /\ held # {}
       /\ ~child /\ held # {} =>
            /\ unit.out = match_internal(unit.node, MATCH_MASKS[unit.nibble + 1])
            /\ unit.out.hdl = result_handle(unit.node)
            /\ BIT_MATCH[unit.out.bit + 1] = CHOOSE m \in held : \A k \in held : k <= m
       /\ unit.out = MatchNone <=> ~child /\ held = {}

\* a node with all sixteen children and all fifteen values is asked for the
\* nibble 5: the child is chased although four prefixes of it are values
C38_Witness ==
  /\ unit.fn = "match_segment"
  /\ unit.nibble = 5
  /\ unit.node.bitmap = END_BIT_MASK
  /\ unit.out.kind = "Chase"
  /\ unit.out.index = 5

\* the BucketVec the last call was made on, before and after it
BvBefore == bvec.before[bvec.side]

BvAfter == bvec.b[bvec.side]

\* the cells of b outside the slot are those of a
SameOutside(a, b, slot) ==
  /\ a.spacing = b.spacing
  /\ \A p \in 0 .. a.len - 1 :
       ~(p >= slot /\ p < slot + a.spacing) => CellAt(b, p) = CellAt(a, p)

\* C37: alloc_slot returns the slot freed last of those on the free list and
\* leaves len unchanged when the free list is not empty; otherwise it returns
\* the old len and advances len by spacing.  The slot returned is a slot of
\* the BucketVec that is not handed out at the time (slots are freed once).
C37_AllocSlot ==
  /\ bvec.fn = "free_slot" =>
       /\ BvAfter.freelist = BvBefore.freelist \o <<bvec.slot>>
       /\ BvAfter.len = BvBefore.len
  /\ bvec.fn = "alloc_slot" =>
       LET slot == bvec.ret[1]
           free == BvBefore.freelist
       IN /\ free # <<>> =>
               /\ slot = free[Len(free)]
               /\ BvAfter.freelist = [j \in 1 .. Len(free) - 1 |-> free[j]]
               /\ BvAfter.len = BvBefore.len
               /\ BvAfter.buf = BvBefore.buf
          /\ free = <<>> =>
               /\ slot = BvBefore.len
               /\ BvAfter.len = BvBefore.len + BvBefore.spacing
               /\ BvAfter.freelist = <<>>
          /\ slot \notin bvec.heldBefore[bvec.side]
          /\ slot % BvAfter.spacing = 0
          /\ slot + BvAfter.spacing <= BvAfter.len
          /\ \A j \in 1 .. Len(BvAfter.freelist) : BvAfter.freelist[j] # slot
          /\ SameOutside(BvBefore, BvAfter, slot)

\* two slots were freed, and alloc_slot returns the one freed last
C37_Witness ==
  /\ bvec.fn = "alloc_slot"
  /\ Len(BvBefore.freelist) = 2
  /\ BvBefore.freelist[1] # BvBefore.freelist[2]
  /\ bvec.ret = <<BvBefore.freelist[2]>>
  /\ bvec.heldBefore[bvec.side] = {}

\* the BucketVec that move_slot moves to, before and after the call
BvOtherBefore == bvec.before[3 - bvec.side]

BvOtherAfter == bvec.b[3 - bvec.side]

\* C33: move_slot(slot, dst) takes the slot of dst that dst.alloc_slot()
\* hands out, copies the first min(self.spacing, dst.spacing) elements of the
\* source slot to it in the same order, pushes the source slot on the free
\* list of the source and returns the offset of the slot of dst; the elements
\* of the other slots of both BucketVecs are unchanged.
C33_MoveSlot ==
  bvec.fn = "move_slot" =>
    LET dst_slot == bvec.ret[1]
        free     == BvOtherBefore.freelist
        nitems   == IF BvBefore.spacing < BvOtherBefore.spacing
                      THEN BvBefore.spacing ELSE BvOtherBefore.spacing
    IN /\ dst_slot = IF free # <<>> THEN free[Len(free)] ELSE BvOtherBefore.len
       /\ BvOtherAfter.len =
            IF free # <<>> THEN BvOtherBefore.len
            ELSE BvOtherBefore.len + BvOtherBefore.spacing
       /\ dst_slot \notin bvec.heldBefore[3 - bvec.side]
       /\ dst_slot \in bvec.held[3 - bvec.side]
       /\ dst_slot + BvOtherAfter.spacing <= BvOtherAfter.len
       /\ \A k \in 0 .. nitems - 1 :
            CellAt(BvOtherAfter, dst_slot + k) = CellAt(BvBefore, bvec.slot + k)
       /\ BvAfter.freelist = BvBefore.freelist \o <<bvec.slot>>
       /\ BvAfter.len = BvBefore.len
       /\ bvec.slot \notin bvec.held[bvec.side]
       /\ SameOutside(BvBefore, BvAfter, bvec.slot)
       /\ SameOutside(BvOtherBefore, BvOtherAfter, dst_slot)

\* a full slot of four elements is moved to a BucketVec of spacing 2 that
\* holds another slot with elements: the first two arrive, in order
C33_Witness ==
  /\ bvec.fn = "move_slot"
  /\ BvBefore.spacing = 4
  /\ BvOtherBefore.spacing = 2
  /\ \A k \in 0 .. 3 : IsInit(CellAt(BvBefore, bvec.slot + k))
  /\ CellAt(BvOtherAfter, bvec.ret[1]) = CellAt(BvBefore, bvec.slot)
  /\ CellAt(BvOtherAfter, bvec.ret[1] + 1) = CellAt(BvBefore, bvec.slot + 1)
  /\ CellAt(BvBefore, bvec.slot) # CellAt(BvBefore, bvec.slot + 1)
  /\ \E s \in bvec.heldBefore[3 - bvec.side] : IsInit(CellAt(BvOtherAfter, s))

\* the slot has a value in every cell
Full(b, slot) == \A k \in 0 .. b.spacing - 1 : IsInit(CellAt(b, slot + k))

\* C34: insert_slot_entry(slot, index, v) writes v at index, moves the
\* elements formerly at index .. spacing - 2 one position to the right and
\* leaves the elements before index and every other slot untouched: nothing
\* is written at or beyond slot + spacing; when every position of the slot
\* was in use the element formerly last is lost.  remove_slot_entry(slot,
\* index) returns the element at index and moves the elements after it one
\* position to the left within the slot.
C34_InsertAndRemoveSlotEntry ==
  /\ bvec.fn = "insert_slot_entry" =>
       /\ CellAt(BvAfter, bvec.slot + bvec.index) = <<bvec.value>>
       /\ \A k \in bvec.index .. BvBefore.spacing - 2 :
            CellAt(BvAfter, bvec.slot + k + 1) = CellAt(BvBefore, bvec.slot + k)
       /\ \A k \in 0 .. bvec.index - 1 :
            CellAt(BvAfter, bvec.slot + k) = CellAt(BvBefore, bvec.slot + k)
       /\ SameOutside(BvBefore, BvAfter, bvec.slot)
       /\ Len(BvAfter.buf) = Len(BvBefore.buf)
       /\ BvAfter.len = BvBefore.len
       /\ BvAfter.freelist = BvBefore.freelist
       /\ Full(BvBefore, bvec.slot) =>
            \A p \in 0 .. BvAfter.len - 1 :
              CellAt(BvAfter, p) # CellAt(BvBefore, bvec.slot + BvBefore.spacing - 1)
  /\ bvec.fn = "remove_slot_entry" =>
       /\ bvec.ret = CellAt(BvBefore, bvec.slot + bvec.index)
       /\ IsInit(bvec.ret)
       /\ \A k \in bvec.index + 1 .. BvBefore.spacing - 1 :
            CellAt(BvAfter, bvec.slot + k - 1) = CellAt(BvBefore, bvec.slot + k)
       /\ \A k \in 0 .. bvec.index - 1 :
            CellAt(BvAfter, bvec.slot + k) = CellAt(BvBefore, bvec.slot + k)
       /\ SameOutside(BvBefore, BvAfter, bvec.slot)
       /\ BvAfter.len = BvBefore.len
       /\ BvAfter.freelist = BvBefore.freelist

\* a value is inserted in the middle of a full slot that is followed by
\* another slot: the last element is lost and the next slot is as before
C34_Witness ==
  /\ bvec.fn = "insert_slot_entry"
  /\ BvBefore.spacing = 4
  /\ bvec.index = 1
  /\ Full(BvBefore, bvec.slot)
  /\ bvec.slot + BvBefore.spacing < BvBefore.len
  /\ CellAt(BvAfter, bvec.slot + 3) = CellAt(BvBefore, bvec.slot + 2)
  /\ CellAt(BvAfter, bvec.slot + 4) = CellAt(BvBefore, bvec.slot + 4)

\* the root node
Root == NodeAt(trienodes, root_handle, 0)

\* C32: the root node lives at the handle {len: 1, offset: 0} of the node
\* arena whatever is inserted or removed: the cell holds a node, the slot is
\* not on the free list and no children collection is at it; the root is
\* never an endnode, so it holds the prefixes shorter than 4 only, and a
\* prefix of length 4 is the '*' value of the root's child for its nibble;
\* the root stays when the table is empty.
C32_RootStays ==
  /\ root_handle = [len |-> 1, offset |-> 0]
  /\ IsInit(A_get(trienodes, root_handle, 0))
  /\ A_get_pre(trienodes, root_handle, 0)
  /\ ~IsFree(Tbl, "trienodes", choose_bucket(1), 0)
  /\ \A x \in Live(Tbl) :
       (x.arena = "trienodes" /\ x.bucket = choose_bucket(1) /\ x.slot = 0)
         => x.owner = <<"root">>
  /\ ~is_endnode(Root)
  /\ internal(Root) \subseteq INT_MASK
  /\ result_count(Root) = Cardinality({e \in slw : e.masklen < 4})
  /\ \A e \in slw :
       e.masklen = 4 =>
         /\ Bit(15 - nibbles(e.ip)[1]) \subseteq external(Root)
         /\ MSB \subseteq internal(ChildFor(Tbl, Root, nibbles(e.ip)[1]))
  /\ len = 0 => is_blank(Root)

\* a prefix of length 4 is stored, the node arena has another collection in
\* the root's bucket and a freed slot on that bucket's free list
C32_Witness ==
  /\ op = "remove"
  /\ \E e \in slw : e.masklen = 4
  /\ \E x \in Live(Tbl) :
       x.arena = "trienodes" /\ x.bucket = choose_bucket(1) /\ x.slot # 0
  /\ FreeList(Tbl, "trienodes", choose_bucket(1)) # <<>>
  /\ A_get(trienodes, root_handle, 0) = <<Root>>

\* the nibbles that insert reads in its first n iterations: those of the
\* array, and 0 past its end
NibblesRead(nibs, n) ==
  <<>> \o [i \in 1 .. n |-> IF i <= Len(nibs) THEN nibs[i] ELSE 0]

\* what C35 says of one call of insert that returned r: it made at most
\* masklen / 4 + 1 iterations, took 4 from bits_left in each but the last
\* without an underflow, and stored the prefix in the node that is one level
\* down per iteration
InsertDescends(r, nibs, masklen) ==
  /\ ~Failed(r.T)
  /\ r.loops >= 1
  /\ r.loops <= masklen \div 4 + 1
  /\ r.bits_left = masklen - 4 * (r.loops - 1)
  /\ r.bits_left >= 0
  /\ \E x \in Reach(r.T) :
       /\ x.path = NibblesRead(nibs, r.loops - 1)
       /\ gen_bitmap(NibblesRead(nibs, r.loops)[r.loops], r.bits_left) \cap END_BIT_MASK
            \subseteq internal(x.node)
  /\ Cardinality(Reach(r.T)) <= Cardinality(Reach(Tbl)) + masklen \div 4 + 1

\* C35: in every reachable state, insert of a prefix of any length in
\* 0 ..= width returns: each iteration of its loop returns or goes one
\* level down after taking 4 from bits_left, so that it visits or creates
\* at most masklen / 4 + 1 nodes; nibbles past the end of the array are
\* read as 0.
C35_InsertTerminates ==
  \A k \in Keys : InsertDescends(insert(Tbl, nibbles(k[1]), k[2], steps + 1),
                                 nibbles(k[1]), k[2])

\* an insert of a prefix of full length has made masklen / 4 + 1 iterations
\* and read a nibble past the end: a node below the last nibble holds '*'
C35_Witness ==
  /\ op = "insert"
  /\ \E e \in slw : e.masklen = Width
  /\ \E x \in Reach(Tbl) : Len(x.path) = NumNibbles /\ MSB \subseteq internal(x.node)

\* the failures that are an underflow of a count of remaining bits
Underflows == {"bits_left underflow", "masklen underflow"}

\* the length that longest_match reports for the first n nibbles of the
\* address is at most 4 * n
MatchWithin(a, n) ==
  LET Within(r) == r.ret # None => r.ret[1][1] <= 4 * n
  IN Within(longest_match(Tbl, SubSeq(nibbles(a), 1, n)))

\* C36: the counts of remaining bits never underflow: in every reachable
\* state and for every prefix, insert and exact_match take 4 from bits_left
\* and remove_child from masklen only when it is 4 or more (insert is left
\* with masklen minus 4 per level, not below 0); and the length that
\* longest_match reports is never more than 4 times the number of nibbles
\* it is given.
C36_NoUnderflow ==
  /\ err \notin Underflows
  /\ \A k \in Keys :
       LET Counted(r) ==
             r.T.err \notin Underflows /\ r.bits_left \in 0 .. k[2]
                /\ r.bits_left = k[2] - 4 * (r.loops - 1)
           Kept(r) == r.T.err \notin Underflows
           Looked(r) == r.err \notin Underflows
       IN /\ Counted(insert(Tbl, nibbles(k[1]), k[2], steps + 1))
          /\ Kept(remove(Tbl, nibbles(k[1]), k[2]))
          /\ Looked(exact_match(Tbl, nibbles(k[1]), k[2]))
  /\ \A a \in Addrs : \A n \in 0 .. NumNibbles : MatchWithin(a, n)

\* a prefix of full length is stored in an endnode at the last nibble:
\* exact_match and remove reach it with 4 bits left, and longest_match
\* reports 4 times the number of nibbles
C36_Witness ==
  /\ op = "insert"
  /\ \E e \in slw :
       /\ e.masklen = Width
       /\ exact_match(Tbl, nibbles(e.ip), Width).ret = Some(e.value)
       /\ remove(Tbl, nibbles(e.ip), Width).ret = Some(e.value)
       /\ longest_match(Tbl, nibbles(e.ip)).ret = Some(<<4 * NumNibbles, e.value>>)
====
